---- MODULE Spec2Model ----
(***************************************************************************)
(* Translation platform: the orchestrator (TranslationService and its      *)
(* engines, translation_service.py), the quality scorer                    *)
(* (text_analyzer.py), the language detector (language_detector.py) and    *)
(* the document pipeline (file_service.py, api/files.py).                  *)
(*                                                                         *)
(* Texts are run-length encoded: a text is a sequence of runs              *)
(* [c |-> character, n |-> repetitions], adjacent runs holding different   *)
(* characters.  len(), strip(), split() and the regular expressions of the *)
(* source are computed on that encoding, so that texts as long as the      *)
(* program's limits (MAX_TRANSLATION_LENGTH, chunk_size) stay small        *)
(* values.  Scores are doubles, computed with Python's float arithmetic.   *)
(***************************************************************************)
EXTENDS Integers, Sequences, FiniteSets, TLC

\* ------------------------------------------------------------------ texts

Letters     == {"a", "b"}
WhiteSpace  == {" ", "\n"}
Terminators == {"."}          \* the class [.!?。！？] restricted to the modelled alphabet
Punctuation == {"."}          \* the class [.!?。！？,，;；:：] restricted likewise
Digits      == {"1"}          \* the class \d restricted likewise
WordChars   == Letters \cup Digits    \* the class \w

Run(c, n) == [c |-> c, n |-> n]

RECURSIVE TLen(_)
TLen(t) == IF t = << >> THEN 0 ELSE t[1].n + TLen(Tail(t))

\* string concatenation, keeping the encoding canonical
Cat(s, t) ==
    IF s = << >> THEN t
    ELSE IF t = << >> THEN s
    ELSE IF s[Len(s)].c = t[1].c
         THEN SubSeq(s, 1, Len(s) - 1) \o << Run(t[1].c, s[Len(s)].n + t[1].n) >> \o Tail(t)
         ELSE s \o t

RECURSIVE LStrip(_)
LStrip(t) == IF t # << >> /\ t[1].c \in WhiteSpace THEN LStrip(Tail(t)) ELSE t

RECURSIVE RStrip(_)
RStrip(t) ==
    IF t # << >> /\ t[Len(t)].c \in WhiteSpace THEN RStrip(SubSeq(t, 1, Len(t) - 1)) ELSE t

\* str.strip()
Strip(t) == RStrip(LStrip(t))

\* re.split(pattern, text) for a pattern that is one terminator followed,
\* when swallow holds, by \s*: the pieces between the matches, empty ones kept
RECURSIVE SplitAcc(_, _, _, _)
SplitAcc(t, cur, skip, swallow) ==
    IF t = << >> THEN << cur >>
    ELSE IF t[1].c \in Terminators
         THEN << cur >> \o [k \in 1..(t[1].n - 1) |-> << >>]
                        \o SplitAcc(Tail(t), << >>, swallow, swallow)
    ELSE IF skip /\ t[1].c \in WhiteSpace
         THEN SplitAcc(Tail(t), cur, TRUE, swallow)
    ELSE SplitAcc(Tail(t), Cat(cur, << t[1] >>), FALSE, swallow)

\* str.split(): the maximal runs of non-whitespace characters
RECURSIVE WordsAcc(_, _, _)
WordsAcc(t, cur, acc) ==
    IF t = << >> THEN (IF cur = << >> THEN acc ELSE Append(acc, cur))
    ELSE IF t[1].c \in WhiteSpace
         THEN WordsAcc(Tail(t), << >>, IF cur = << >> THEN acc ELSE Append(acc, cur))
    ELSE WordsAcc(Tail(t), Append(cur, t[1]), acc)

Words(t) == WordsAcc(t, << >>, << >>)

SeqToSet(s) == {s[i] : i \in DOMAIN s}

RECURSIVE SumSeq(_)
SumSeq(s) == IF s = << >> THEN 0 ELSE s[1] + SumSeq(Tail(s))

\* number of characters of t that belong to the class cls
CountIn(t, cls) == SumSeq([i \in DOMAIN t |-> IF t[i].c \in cls THEN t[i].n ELSE 0])

\* ------------------------------------------------- quality scorer (text_analyzer.py)

Max(a, b) == IF a >= b THEN a ELSE b
\* A score is a Python float, an IEEE-754 double, and the code's arithmetic on
\* scores rounds after every operation. The model keeps a double that is not
\* negative as its 53-bit significand, in a part hi of 25 bits and a part lo of
\* 28 bits, and its exponent e: the value is (hi * 2^28 + lo) * 2^e with
\* 2^24 <= hi < 2^25 and 0 <= lo < 2^28; zero is [hi |-> 0, lo |-> 0, e |-> 0].
\* Equal doubles are equal records. The operations below give the doubles that
\* Python's *, + and / give (round to nearest, ties to even).
\* Each operation takes the values of its operands before it computes, as
\* Python does: its work is done by functions, whose arguments are values.

Double == [hi : Nat, lo : Nat, e : Int]

\* the double nearest to (hi * 2^28 + lo) * 2^e, for 2^54 <= hi * 2^28 + lo < 2^57;
\* sticky tells that the exact value has bits below those of lo
RoundDouble(hi, lo, sticky, e) ==
    LET W == 268435456
        \* 53 of the 56 bits of h * 2^28 + l, rounded on the three bits dropped and on s
        Nearest[h \in Nat, l \in Nat, s \in BOOLEAN, x \in Int] ==
            LET mh == h \div 8
                ml == (l \div 8) + (h % 8) * (W \div 8)
                g == l % 8
                up == g > 4 \/ (g = 4 /\ (s \/ ml % 2 = 1))
                ml2 == IF up THEN ml + 1 ELSE ml
                mh2 == IF ml2 = W THEN mh + 1 ELSE mh
            IN  IF mh2 = W \div 8 THEN [hi |-> W \div 16, lo |-> 0, e |-> x + 4]
                ELSE [hi |-> mh2, lo |-> ml2 % W, e |-> x + 3]
        \* one bit to the right or to the left, to 56 bits
        Aligned[h \in Nat, l \in Nat, s \in BOOLEAN, x \in Int] ==
            LET big == h >= W
                small == h < W \div 2
            IN  Nearest[IF big THEN h \div 2
                        ELSE IF small THEN 2 * h + l \div (W \div 2) ELSE h,
                        IF big THEN (l \div 2) + (h % 2) * (W \div 2)
                        ELSE IF small THEN (2 * l) % W ELSE l,
                        s \/ (big /\ l % 2 = 1),
                        IF big THEN x + 1 ELSE IF small THEN x - 1 ELSE x]
    IN  Aligned[hi, lo, sticky, e]

\* float(k) for a whole number 0 <= k < 2^31
Float(k) ==
    LET W == 268435456
        Bits56 == [h : Nat, l : Nat, e : Int]
        \* s shifted left by n bits when its 56 bits leave room for them
        Shl[s \in Bits56, n \in Nat] ==
            IF s.h >= 2 ^ (28 - n) THEN s
            ELSE [h |-> s.h * 2 ^ n + s.l \div 2 ^ (28 - n),
                  l |-> (s.l % 2 ^ (28 - n)) * 2 ^ n, e |-> s.e - n]
        Rounded[s \in Bits56] == RoundDouble(s.h, s.l, FALSE, s.e)
        Normal[j \in Nat] ==
            LET s0 == IF j < W THEN [h |-> j, l |-> 0, e |-> -28]
                      ELSE [h |-> j \div W, l |-> j % W, e |-> 0]
            IN  IF j = 0 THEN [hi |-> 0, lo |-> 0, e |-> 0]
                ELSE Rounded[Shl[Shl[Shl[Shl[Shl[s0, 16], 8], 4], 2], 1]]
    IN  Normal[k]

\* x * y: the 106-bit product of the significands in digits of 14 bits
FMul(x, y) ==
    LET D == 16384
        Product[a \in Double, b \in Double] ==
            LET a0 == a.lo % D  a1 == a.lo \div D  a2 == a.hi % D  a3 == a.hi \div D
                b0 == b.lo % D  b1 == b.lo \div D  b2 == b.hi % D  b3 == b.hi \div D
                t0 == a0 * b0
                t1 == a0 * b1 + a1 * b0 + t0 \div D
                t2 == a0 * b2 + a1 * b1 + a2 * b0 + t1 \div D
                t3 == a0 * b3 + a1 * b2 + a2 * b1 + a3 * b0 + t2 \div D
                t4 == a1 * b3 + a2 * b2 + a3 * b1 + t3 \div D
                t5 == a2 * b3 + a3 * b2 + t4 \div D
                t6 == a3 * b3 + t5 \div D
                d3 == t3 % D  d4 == t4 % D  d5 == t5 % D
            IN  IF a.hi = 0 \/ b.hi = 0 THEN [hi |-> 0, lo |-> 0, e |-> 0]
                ELSE RoundDouble((d5 \div 128) + (t6 % D) * 128 + (t6 \div D) * 2097152,
                                 (d3 \div 128) + d4 * 128 + (d5 % 128) * 2097152,
                                 t0 % D # 0 \/ t1 % D # 0 \/ t2 % D # 0 \/ d3 % 128 # 0,
                                 a.e + b.e + 49)
    IN  Product[x, y]

\* x + y: the operand of the lower exponent shifted to the other, three bits
\* and the sticky bit kept below the 53
FAdd(x, y) ==
    LET W == 268435456
        \* a.e >= b.e
        Sum[a \in Double, b \in Double] ==
            LET d == a.e - b.e
                ah == a.hi * 8 + a.lo \div (W \div 8)
                al == (a.lo % (W \div 8)) * 8
                bh == b.hi * 8 + b.lo \div (W \div 8)
                bl == (b.lo % (W \div 8)) * 8
                p == IF d < 28 THEN 2 ^ d ELSE IF d < 56 THEN 2 ^ (d - 28) ELSE 1
                sh == IF d < 28 THEN bh \div p ELSE 0
                sl == IF d < 28 THEN (bl \div p) + (bh % p) * (W \div p)
                      ELSE IF d < 56 THEN bh \div p ELSE 0
                sticky == IF d < 28 THEN bl % p # 0
                          ELSE IF d < 56 THEN bh % p # 0 \/ bl # 0 ELSE TRUE
                l == al + sl
            IN  RoundDouble(ah + sh + l \div W, l % W, sticky, a.e - 3)
        Ordered[a \in Double, b \in Double] ==
            IF a.hi = 0 THEN b ELSE IF b.hi = 0 THEN a
            ELSE Sum[IF a.e >= b.e THEN a ELSE b, IF a.e >= b.e THEN b ELSE a]
    IN  Ordered[x, y]

\* x / y for y > 0: 56 bits of the quotient of the significands by long
\* division, the remainder as the sticky bit
FDiv(x, y) ==
    LET W == 268435456
        \* r: the remainder, q: the bits of the quotient so far
        Division == [rh : Nat, rl : Nat, qh : Nat, ql : Nat]
        Quotient[a \in Double, b \in Double] ==
            LET \* n more bits of the quotient
                Bits[s \in Division, n \in Nat] ==
                    IF n = 0 THEN s
                    ELSE IF s.rh > b.hi \/ (s.rh = b.hi /\ s.rl >= b.lo)
                    THEN LET l == 2 * ((s.rl - b.lo + W) % W)
                             h == s.rh - b.hi - (IF s.rl < b.lo THEN 1 ELSE 0)
                         IN  Bits[[rh |-> 2 * h + l \div W, rl |-> l % W,
                                   qh |-> 2 * s.qh + (2 * s.ql + 1) \div W,
                                   ql |-> (2 * s.ql + 1) % W], n - 1]
                    ELSE Bits[[rh |-> 2 * s.rh + (2 * s.rl) \div W, rl |-> (2 * s.rl) % W,
                               qh |-> 2 * s.qh + (2 * s.ql) \div W, ql |-> (2 * s.ql) % W],
                              n - 1]
                \* k more times eight bits
                Bytes[s \in Division, k \in Nat] ==
                    IF k = 0 THEN s ELSE Bytes[Bits[s, 8], k - 1]
                Rounded[s \in Division] ==
                    RoundDouble(s.qh, s.ql, s.rh # 0 \/ s.rl # 0, a.e - b.e - 55)
            IN  IF a.hi = 0 THEN a
                ELSE Rounded[Bytes[[rh |-> a.hi, rl |-> a.lo, qh |-> 0, ql |-> 0], 7]]
    IN  Quotient[x, y]

\* x < y for two doubles
ScoreLess(x, y) ==
    IF x.hi = 0 THEN y.hi # 0
    ELSE IF y.hi = 0 THEN FALSE
    ELSE \/ x.e < y.e
         \/ x.e = y.e /\ (x.hi < y.hi \/ (x.hi = y.hi /\ x.lo < y.lo))

\* the doubles that the float literals of the scorer denote
Literal(lit) ==
    CASE lit = "0.0" -> [hi |-> 0, lo |-> 0, e |-> 0]
      [] lit = "0.15" -> [hi |-> 20132659, lo |-> 53687091, e |-> -55]
      [] lit = "0.2" -> [hi |-> 26843545, lo |-> 161061274, e |-> -55]
      [] lit = "0.25" -> [hi |-> 16777216, lo |-> 0, e |-> -54]
      [] lit = "0.4" -> [hi |-> 26843545, lo |-> 161061274, e |-> -54]
      [] lit = "0.5" -> [hi |-> 16777216, lo |-> 0, e |-> -53]
      [] lit = "0.6" -> [hi |-> 20132659, lo |-> 53687091, e |-> -53]
      [] lit = "0.7" -> [hi |-> 23488102, lo |-> 107374182, e |-> -53]
      [] lit = "0.8" -> [hi |-> 26843545, lo |-> 161061274, e |-> -53]
      [] lit = "1.2" -> [hi |-> 20132659, lo |-> 53687091, e |-> -52]
      [] lit = "1.3" -> [hi |-> 21810380, lo |-> 214748365, e |-> -52]
      [] lit = "2.0" -> [hi |-> 16777216, lo |-> 0, e |-> -51]
      [] lit = "2.5" -> [hi |-> 20971520, lo |-> 0, e |-> -51]
      [] lit = "100.0" -> [hi |-> 26214400, lo |-> 0, e |-> -46]

\* expected_ratios.get((source_lang, target_lang), (0.5, 2.0)), as written
expected_ratios(source_lang, target_lang) ==
    CASE source_lang = "en" /\ target_lang = "zh" -> << "0.4", "0.8" >>
      [] source_lang = "zh" /\ target_lang = "en" -> << "1.2", "2.5" >>
      [] source_lang = "ja" /\ target_lang = "zh" -> << "0.6", "1.2" >>
      [] source_lang = "ko" /\ target_lang = "zh" -> << "0.6", "1.2" >>
      [] source_lang = "fr" /\ target_lang = "en" -> << "0.8", "1.3" >>
      [] source_lang = "de" /\ target_lang = "en" -> << "0.7", "1.2" >>
      [] OTHER -> << "0.5", "2.0" >>

\* analyze_length_ratio with the ratio of a too long translation upside down
analyze_length_ratio_Inverted(source_text, translated_text, source_lang, target_lang) ==
    IF source_text = << >> \/ translated_text = << >> THEN Literal("0.0")
    ELSE LET source_len == TLen(source_text)
             translated_len == TLen(translated_text)
             range == expected_ratios(source_lang, target_lang)
             length_score[ratio \in Double, min_ratio \in Double, max_ratio \in Double] ==
                 IF ~ScoreLess(ratio, min_ratio) /\ ~ScoreLess(max_ratio, ratio)
                 THEN Literal("100.0")
                 ELSE IF ScoreLess(ratio, min_ratio)
                 THEN FMul(Literal("100.0"), FDiv(ratio, min_ratio))
                 ELSE FMul(Literal("100.0"), FDiv(ratio, max_ratio))
         IN  length_score[FDiv(Float(translated_len), Float(source_len)),
                          Literal(range[1]), Literal(range[2])]

\* ratio = translated_len / source_len against the pair's (min_ratio, max_ratio)
analyze_length_ratio(source_text, translated_text, source_lang, target_lang) ==
    IF source_text = << >> \/ translated_text = << >> THEN Literal("0.0")
    ELSE LET source_len == TLen(source_text)
             translated_len == TLen(translated_text)
             range == expected_ratios(source_lang, target_lang)
             length_score[ratio \in Double, min_ratio \in Double, max_ratio \in Double] ==
                 IF ~ScoreLess(ratio, min_ratio) /\ ~ScoreLess(max_ratio, ratio)
                 THEN Literal("100.0")
                 ELSE IF ScoreLess(ratio, min_ratio)
                 THEN FMul(Literal("100.0"), FDiv(ratio, min_ratio))
                 ELSE FMul(Literal("100.0"), FDiv(max_ratio, ratio))
         IN  length_score[FDiv(Float(translated_len), Float(source_len)),
                          Literal(range[1]), Literal(range[2])]

analyze_completeness(source_text, translated_text) ==
    IF source_text = << >> \/ translated_text = << >> THEN Literal("0.0")
    ELSE LET source_words == SeqToSet(Words(source_text))
             translated_words == SeqToSet(Words(translated_text))
             overlap == Cardinality(source_words \cap translated_words)
             \* str.endswith('...'): the text ends with three or more full stops
             p1 == IF translated_text[Len(translated_text)].c = "."
                      /\ translated_text[Len(translated_text)].n >= 3
                   THEN 30 ELSE 0
             p2 == IF TLen(source_text) > 20
                      /\ ScoreLess(FMul(Float(Cardinality(source_words)), Literal("0.7")),
                                   Float(overlap))
                   THEN 40 ELSE 0
             p3 == IF 10 * TLen(Strip(translated_text)) < TLen(Strip(source_text))
                   THEN 50 ELSE 0
         IN  Float(Max(0, 100 - p1 - p2 - p3))

\* a single word character standing alone: \b\w\b
LoneLetter(t, i) ==
    /\ i \in DOMAIN t /\ t[i].c \in WordChars /\ t[i].n = 1
    /\ (i > 1 => t[i - 1].c \notin WordChars)
    /\ (i < Len(t) => t[i + 1].c \notin WordChars)

\* the run that ends the whitespace starting at run i (0 when run i is no whitespace)
RECURSIVE AfterSpace(_, _)
AfterSpace(t, i) ==
    IF i \in DOMAIN t /\ t[i].c \in WhiteSpace
    THEN (IF i + 1 \in DOMAIN t /\ t[i + 1].c \in WhiteSpace THEN AfterSpace(t, i + 1) ELSE i + 1)
    ELSE 0

\* re.search(r'\s+[.!?。！？]', text)
SpaceBeforeTerminator(t) ==
    \E i \in DOMAIN t : t[i].c \in WhiteSpace /\ i + 1 \in DOMAIN t /\ t[i + 1].c \in Terminators

\* re.search(r'[.!?。！？]{3,}', text)
TerminatorRun(t) ==
    \E i \in DOMAIN t : \E j \in i..Len(t) :
        /\ \A k \in i..j : t[k].c \in Terminators
        /\ SumSeq([k \in 1..(j - i + 1) |-> t[i + k - 1].n]) >= 3

\* re.search(r'\b\w\b\s+\b\w\b\s+\b\w\b', text)
ThreeLoneLetters(t) ==
    \E i \in DOMAIN t :
        LET j == AfterSpace(t, i + 1)
            k == AfterSpace(t, j + 1)
        IN  LoneLetter(t, i) /\ j # 0 /\ LoneLetter(t, j) /\ k # 0 /\ LoneLetter(t, k)

analyze_fluency(text, language) ==
    IF text = << >> THEN Literal("0.0")
    ELSE LET words == Words(text)
             sentences == SplitAcc(text, << >>, FALSE, FALSE)
             total_words == SumSeq([i \in DOMAIN sentences |-> Len(Words(sentences[i]))])
             punct_count == CountIn(text, Punctuation)
             word_count == Len(words)
             p1 == IF Len(words) > 1 /\ Len(words) > 2 * Cardinality(SeqToSet(words))
                   THEN 20 ELSE 0
             p2 == IF total_words < 3 * Len(sentences) THEN 15
                   ELSE IF total_words > 50 * Len(sentences) THEN 10 ELSE 0
             p3 == IF word_count > 0
                   THEN (IF 10 * punct_count > 3 * word_count THEN 10
                         ELSE IF 20 * punct_count < word_count /\ word_count > 10 THEN 15
                         ELSE 0)
                   ELSE 0
             p4 == (IF SpaceBeforeTerminator(text) THEN 5 ELSE 0)
                   + (IF TerminatorRun(text) THEN 5 ELSE 0)
                   + (IF ThreeLoneLetters(text) THEN 5 ELSE 0)
         IN  Float(Max(0, 100 - p1 - p2 - p3 - p4))

\* len(re.findall(r'\*.*?\*', text)): a star opens a match and the next star
\* on the same line closes it
RECURSIVE ItalicAcc(_, _, _)
ItalicAcc(t, open, n) ==
    IF t = << >> THEN n
    ELSE IF t[1].c = "*"
         THEN LET stars == IF open THEN t[1].n + 1 ELSE t[1].n
              IN  ItalicAcc(Tail(t), stars % 2 = 1, n + (stars \div 2))
    ELSE IF t[1].c = "\n" THEN ItalicAcc(Tail(t), FALSE, n)
    ELSE ItalicAcc(Tail(t), open, n)

\* len(re.findall(r'\*\*.*?\*\*', text)): two stars open a match and the next
\* two adjacent stars on the same line close it
RECURSIVE BoldAcc(_, _, _)
BoldAcc(t, open, n) ==
    IF t = << >> THEN n
    ELSE IF t[1].c = "*"
         THEN LET stars == IF open /\ t[1].n >= 2 THEN t[1].n + 2
                           ELSE IF open THEN 0 ELSE t[1].n
              IN  IF open /\ t[1].n < 2 THEN BoldAcc(Tail(t), TRUE, n)
                  ELSE BoldAcc(Tail(t), stars % 4 >= 2, n + (stars \div 4))
    ELSE IF t[1].c = "\n" THEN BoldAcc(Tail(t), FALSE, n)
    ELSE BoldAcc(Tail(t), open, n)

\* the numbers of matches of the five format_markers; the modelled alphabet
\* holds no backquote, bracket or parenthesis, so the last three find nothing
format_markers(text) ==
    << BoldAcc(text, FALSE, 0), ItalicAcc(text, FALSE, 0), 0, 0, 0 >>

analyze_format_preservation(source_text, translated_text) ==
    IF source_text = << >> \/ translated_text = << >> THEN Literal("0.0")
    ELSE LET source_lines == CountIn(source_text, {"\n"})
             translated_lines == CountIn(translated_text, {"\n"})
             source_matches == format_markers(source_text)
             translated_matches == format_markers(translated_text)
             p1 == IF source_lines > 0 /\ (2 * (source_lines - translated_lines) > source_lines
                          \/ 2 * (translated_lines - source_lines) > source_lines)
                   THEN 20 ELSE 0
             p2 == SumSeq([m \in 1..5 |->
                       IF source_matches[m] > 0
                          /\ 10 * translated_matches[m] < 8 * source_matches[m]
                       THEN 10 ELSE 0])
         IN  Float(Max(0, 100 - p1 - p2))

\* set(re.findall(r'\d+(?:\.\d+)?', text))
RECURSIVE Numbers(_)
Numbers(t) ==
    IF t = << >> THEN {}
    ELSE IF t[1].c \in Digits
         THEN IF Len(t) >= 3 /\ t[2] = Run(".", 1) /\ t[3].c \in Digits
              THEN {SubSeq(t, 1, 3)} \cup Numbers(SubSeq(t, 4, Len(t)))
              ELSE {<< t[1] >>} \cup Numbers(Tail(t))
    ELSE Numbers(Tail(t))

\* The modelled alphabet holds no URL and no e-mail address: the two lists
\* extracted from the source text are empty and their rules do not apply.
analyze_special_characters(source_text, translated_text) ==
    IF source_text = << >> \/ translated_text = << >> THEN Literal("0.0")
    ELSE LET source_numbers == Numbers(source_text)
             translated_numbers == Numbers(translated_text)
             p1 == IF source_numbers # {}
                      /\ 10 * Cardinality(source_numbers \cap translated_numbers)
                            < 8 * Cardinality(source_numbers)
                   THEN 20 ELSE 0
         IN  Float(Max(0, 100 - p1))

\* score = 0.0, then score += sub-score * weight for the five sub-scores in
\* the code's order, each product and each sum rounded; min(100.0, max(0.0, score)),
\* where no score is negative
analyze_text_quality(source_text, translated_text, source_lang, target_lang) ==
    LET length_score == analyze_length_ratio(source_text, translated_text, source_lang,
                                             target_lang)
        completeness_score == analyze_completeness(source_text, translated_text)
        fluency_score == analyze_fluency(translated_text, target_lang)
        format_score == analyze_format_preservation(source_text, translated_text)
        special_char_score == analyze_special_characters(source_text, translated_text)
        s1 == FAdd(Literal("0.0"), FMul(length_score, Literal("0.2")))
        s2 == FAdd(s1, FMul(completeness_score, Literal("0.25")))
        s3 == FAdd(s2, FMul(fluency_score, Literal("0.25")))
        s4 == FAdd(s3, FMul(format_score, Literal("0.15")))
        clamped[score \in Double] ==
            IF ScoreLess(Literal("100.0"), score) THEN Literal("100.0") ELSE score
    IN  clamped[FAdd(s4, FMul(special_char_score, Literal("0.15")))]

\* ------------------------------------------------------------ configuration

MAX_TRANSLATION_LENGTH == 10000
chunk_size == 1000

\* the order in which _initialize_engines registers the engines it has keys for
EngineOrder == << "openai", "anthropic", "google", "baidu" >>
AllEngines == SeqToSet(EngineOrder)

\* list(self.engines.keys())
available_engines(registered) == SelectSeq(EngineOrder, LAMBDA e : e \in registered)

\* the engines whose translate() takes model and style into the cache key
TakesOptions(e) == e \in {"openai", "anthropic"}

DefaultModel(e) ==
    CASE e = "openai" -> "gpt-3.5-turbo"
      [] e = "anthropic" -> "claude-3-haiku-20240307"
      [] e = "google" -> "translate-v3"
      [] OTHER -> "baidu-translate"

\* confidence_score, in hundredths
Confidence(e) ==
    CASE e = "openai" -> 90 [] e = "anthropic" -> 88 [] e = "google" -> 85 [] OTHER -> 82

\* keyword arguments are dictionaries: functions from a set of names
NoKwargs == [k \in {} |-> ""]

\* Python's None as the value of an option
None == "None"
KwGet(kw, k, default) == IF k \in DOMAIN kw THEN kw[k] ELSE default

\* ------------------------------------------------------------------ values

NoResult == [engine |-> "none"]
NoFrame == [pc |-> "idle"]
NoOutcome == [kind |-> "none", result |-> NoResult]
NoKey == [name |-> "none"]
NoCompare == [i |-> 0]

BackendFail == [ok |-> FALSE, text |-> << >>]
BackendOk(t) == [ok |-> TRUE, text |-> t]

Event(ev, engine, ok, text) == [ev |-> ev, engine |-> engine, ok |-> ok, text |-> text]
CacheGetEvent(engine, up, found) == Event(IF found THEN "cache_hit" ELSE "cache_get", engine, up, << >>)

\* dict[k] = v on an insertion-ordered dictionary kept as a sequence of entries
DictKeys(d) == {d[i].k : i \in DOMAIN d}
DictSet(d, k, v) ==
    IF k \in DictKeys(d)
    THEN [i \in DOMAIN d |-> IF d[i].k = k THEN [k |-> k, v |-> v] ELSE d[i]]
    ELSE Append(d, [k |-> k, v |-> v])
DictGet(d, k) == d[CHOOSE i \in DOMAIN d : d[i].k = k].v

\* ------------------------------------------------------------------- state

VARIABLES
    engines,    \* TranslationService.engines: the registered engine names
    cache,      \* the redis store: cache key -> stored document
    langmemo,   \* what langdetect answered for each text so far (seed 0: it repeats itself)
    pc,         \* the caller of the orchestrator: "idle", "translate" or a point of compare
    req,        \* the arguments of the call in progress
    outcome,    \* what the last finished call returned or raised
    ncalls,     \* calls made so far
    prev,       \* the last finished translate call
    svc,        \* frame of TranslationService.translate
    ecall,      \* frame of TranslationEngine.translate
    cmp,        \* frame of TranslationService.compare_translations
    trace,      \* the detector, cache and backend accesses of the call in progress
    files,      \* the files table: file id -> File row
    file_seq,   \* the last id the files table handed out (ids are not used again)
    chunks,     \* the file_chunks table, rows in insertion order
    pl          \* frame of FileService.translate_file_async

vars == << engines, cache, langmemo, pc, req, outcome, ncalls, prev, svc, ecall, cmp,
           trace, files, file_seq, chunks, pl >>

\* --------------------------------------------- cache (TranslationEngine helpers)

\* the option names, in the order sorted() puts them
OptionNames == << "context", "model", "style" >>

\* json.dumps(kwargs) without sort_keys: the members in the order of the call
sort_keys_AsGiven(kwargs) == kwargs

\* json.dumps(kwargs, sort_keys=True): the members of the dictionary, by key
sort_keys(kwargs) ==
    LET present == SelectSeq(OptionNames, LAMBDA n : n \in DictKeys(kwargs))
    IN  [i \in DOMAIN present |-> [k |-> present[i], v |-> DictGet(kwargs, present[i])]]

\* _get_cache_key: the md5 digest is taken as one-to-one on the formatted content,
\* whose fields are text, source_lang, target_lang, self.name and the sorted kwargs
get_cache_key(name, text, source_lang, target_lang, kwargs) ==
    [text |-> text, source_lang |-> source_lang, target_lang |-> target_lang,
     name |-> name, kwargs |-> sort_keys(kwargs)]

ResultFields == << "engine", "model", "translated_text", "source_language", "target_language",
                   "quality_score", "confidence_score", "word_count", "character_count",
                   "metadata" >>

\* json.dumps(result): the members of the object, in order
json_dumps(result) == [i \in DOMAIN ResultFields |-> << ResultFields[i], result[ResultFields[i]] >>]

\* json.loads(cached)
json_loads(doc) ==
    [name \in {doc[i][1] : i \in DOMAIN doc} |->
        doc[CHOOSE i \in DOMAIN doc : doc[i][1] = name][2]]

\* a lookup that never finds an entry
get_cached_translation_AlwaysMiss(store, cache_key, up) == NoResult

\* _get_cached_translation: redis GET raising (up = FALSE) is logged and read as a miss
get_cached_translation(store, cache_key, up) ==
    IF up /\ cache_key \in DOMAIN store THEN json_loads(store[cache_key]) ELSE NoResult

\* _cache_translation: redis SETEX raising (up = FALSE) is logged and swallowed
cache_translation(store, cache_key, result, up) ==
    IF up THEN [k \in DOMAIN store \cup {cache_key} |->
                    IF k = cache_key THEN json_dumps(result) ELSE store[k]]
    ELSE store

\* ------------------------------------------- language detector (detect_language)

LANGUAGE_MAPPING(code) == IF code \in {"zh-cn", "zh-tw"} THEN "zh" ELSE code

\* what langdetect.detect may answer for a text: a code, or LangDetectException
LangdetectAnswers == {"zh-cn", "raise"}

LangAnswers(text) ==
    IF text \in DOMAIN langmemo THEN {langmemo[text]} ELSE LangdetectAnswers

\* detect_language: 'en' for blank text and on any failure, else the mapped code
detect_language(text, raw) ==
    IF text = << >> \/ Strip(text) = << >> THEN "en"
    ELSE IF raw = "raise" THEN "en"
    ELSE LANGUAGE_MAPPING(raw)

Remember(text, raw) ==
    IF text = << >> \/ Strip(text) = << >> THEN langmemo
    ELSE [t \in DOMAIN langmemo \cup {text} |-> IF t = text THEN raw ELSE langmemo[t]]

\* --------------------------------------------------- engines (XTranslationEngine)

\* what a backend may answer to a request: an error of any kind (network, quota,
\* malformed body), or a translated text
Answers == { << Run(" ", 1) >>, << Run("b", 3) >> }
BackendAnswers(text) == {BackendFail} \cup {BackendOk(t) : t \in Answers}

\* entry of XTranslationEngine.translate(text, source_lang, target_lang, **kwargs)
EngineBegin(e, text, source_lang, target_lang, kwargs) ==
    LET model == IF TakesOptions(e) THEN KwGet(kwargs, "model", DefaultModel(e))
                 ELSE DefaultModel(e)
        style == IF TakesOptions(e) THEN KwGet(kwargs, "style", "natural") ELSE ""
        keykw == IF TakesOptions(e)
                 THEN << [k |-> "model", v |-> model], [k |-> "style", v |-> style] >>
                 ELSE << >>
    IN  [pc |-> "cache_get", engine |-> e, text |-> text, source_lang |-> source_lang,
         target_lang |-> target_lang, model |-> model, style |-> style,
         cache_key |-> get_cache_key(e, text, source_lang, target_lang, keykw),
         translated_text |-> << >>, ret |-> NoResult]

\* the result dictionary an engine builds from the backend's answer
EngineResult(f) ==
    [engine |-> f.engine, model |-> f.model, translated_text |-> f.translated_text,
     source_language |-> f.source_lang, target_language |-> f.target_lang,
     quality_score |-> analyze_text_quality(f.text, f.translated_text,
                                            f.source_lang, f.target_lang),
     confidence_score |-> Confidence(f.engine),
     word_count |-> Len(Words(f.text)), character_count |-> TLen(f.text),
     metadata |-> IF TakesOptions(f.engine) THEN [k \in {"style"} |-> f.style]
                  ELSE IF f.engine = "google"
                       THEN [k \in {"detected_language"} |-> f.source_lang]
                       ELSE NoKwargs]

\* the translated text an engine takes from the backend's answer: the two chat
\* engines strip() the message content, the two translation APIs take the field as it is
TranslatedText(e, answer) == IF TakesOptions(e) THEN Strip(answer) ELSE answer

\* cached_result = await self._get_cached_translation(cache_key); if cached_result: return
EngineCacheGet ==
    /\ ecall.pc = "cache_get"
    /\ \E up \in BOOLEAN :
         LET cached_result == get_cached_translation(cache, ecall.cache_key, up)
         IN  /\ ecall' = IF cached_result # NoResult
                         THEN [ecall EXCEPT !.pc = "returned", !.ret = cached_result]
                         ELSE [ecall EXCEPT !.pc = "backend"]
             /\ trace' = Append(trace, CacheGetEvent(ecall.engine, up, cached_result # NoResult))
    /\ UNCHANGED << engines, file_seq, cache, langmemo, pc, req, outcome, ncalls, prev, svc, cmp,
                    files, chunks, pl >>

\* an engine that answers a failed backend call with the source text
EngineBackend_FallsBack ==
    /\ ecall.pc = "backend"
    /\ \E resp \in BackendAnswers(ecall.text) :
         /\ ecall' = [ecall EXCEPT !.pc = "store",
                         !.translated_text = IF resp.ok
                                             THEN TranslatedText(ecall.engine, resp.text)
                                             ELSE ecall.text]
         /\ trace' = Append(trace, Event("backend", ecall.engine, resp.ok, resp.text))
    /\ UNCHANGED << engines, file_seq, cache, langmemo, pc, req, outcome, ncalls, prev, svc, cmp,
                    files, chunks, pl >>

\* the call to the backend inside try: any exception is re-raised as the engine's error
EngineBackend ==
    /\ ecall.pc = "backend"
    /\ \E resp \in BackendAnswers(ecall.text) :
         /\ ecall' = IF resp.ok
                     THEN [ecall EXCEPT !.pc = "store",
                              !.translated_text = TranslatedText(ecall.engine, resp.text)]
                     ELSE [ecall EXCEPT !.pc = "raised"]
         /\ trace' = Append(trace, Event("backend", ecall.engine, resp.ok, resp.text))
    /\ UNCHANGED << engines, file_seq, cache, langmemo, pc, req, outcome, ncalls, prev, svc, cmp,
                    files, chunks, pl >>

\* an engine that lets the cache write's exception out
EngineStore_Propagates ==
    /\ ecall.pc = "store"
    /\ \E result \in {EngineResult(ecall)}, up \in BOOLEAN :
         /\ cache' = cache_translation(cache, ecall.cache_key, result, up)
         /\ trace' = Append(trace, Event("cache_set", ecall.engine, up, << >>))
         /\ ecall' = IF up THEN [ecall EXCEPT !.pc = "returned", !.ret = result]
                     ELSE [ecall EXCEPT !.pc = "raised"]
    /\ UNCHANGED << engines, file_seq, langmemo, pc, req, outcome, ncalls, prev, svc, cmp,
                    files, chunks, pl >>

\* quality_score = await analyze_text_quality(...); await self._cache_translation(...); return
EngineStore ==
    /\ ecall.pc = "store"
    /\ \E result \in {EngineResult(ecall)}, up \in BOOLEAN :
         /\ cache' = cache_translation(cache, ecall.cache_key, result, up)
         /\ trace' = Append(trace, Event("cache_set", ecall.engine, up, << >>))
         /\ ecall' = [ecall EXCEPT !.pc = "returned", !.ret = result]
    /\ UNCHANGED << engines, file_seq, langmemo, pc, req, outcome, ncalls, prev, svc, cmp,
                    files, chunks, pl >>

\* the backend call that never settles: the await inside translate() does not return
EngineHang ==
    /\ ecall.pc = "backend"
    /\ ecall' = [ecall EXCEPT !.pc = "hung"]
    /\ UNCHANGED << engines, file_seq, cache, langmemo, pc, req, outcome, ncalls, prev, svc, cmp,
                    trace, files, chunks, pl >>

EngineDone == ecall.pc \in {"returned", "raised"}

\* the TTL of an entry (TRANSLATION_CACHE_TTL) running out; an expiry during a call
\* acts on that call as one just before or just after it, so it is taken between calls
CacheExpire ==
    /\ pc = "idle"
    /\ \E k \in DOMAIN cache :
         /\ cache' = [j \in DOMAIN cache \ {k} |-> cache[j]]
         /\ prev' = IF prev.key = k THEN [prev EXCEPT !.fresh = FALSE] ELSE prev
    /\ UNCHANGED << engines, file_seq, langmemo, pc, req, outcome, ncalls, svc, ecall, cmp, trace,
                    files, chunks, pl >>

\* ------------------------------------------- TranslationService.translate

Raised(kind) == [kind |-> kind, result |-> NoResult]
Returned(result) == [kind |-> "ok", result |-> result]

\* entry of translate(text, source_lang, target_lang, engine, **kwargs)
ServiceBegin(text, source_lang, target_lang, engine, kwargs) ==
    [pc |-> "validate", text |-> text, source_lang |-> source_lang,
     target_lang |-> target_lang, engine |-> engine, kwargs |-> kwargs, key |-> NoKey,
     out |-> NoOutcome]

\* a validation without the length limit
ValidText_NoLengthLimit(text) == Strip(text) # << >>

\* if not text.strip(): raise ValueError; if len(text) > MAX_TRANSLATION_LENGTH: raise ValueError
ValidText(text) == Strip(text) # << >> /\ ~(TLen(text) > MAX_TRANSLATION_LENGTH)

ServiceValidate ==
    /\ svc.pc = "validate"
    /\ svc' = IF ~ValidText(svc.text)
              THEN [svc EXCEPT !.pc = "done", !.out = Raised("ValueError")]
              ELSE [svc EXCEPT !.pc = IF svc.source_lang = "auto" THEN "detect" ELSE "resolve"]
    /\ UNCHANGED << engines, file_seq, cache, langmemo, pc, req, outcome, ncalls, prev, ecall, cmp,
                    trace, files, chunks, pl >>

\* if source_lang == "auto": source_lang = await detect_language(text)
ServiceDetect ==
    /\ svc.pc = "detect"
    /\ \E raw \in LangAnswers(svc.text) :
         /\ svc' = [svc EXCEPT !.pc = "resolve", !.source_lang = detect_language(svc.text, raw)]
         /\ langmemo' = Remember(svc.text, raw)
    /\ trace' = Append(trace, Event("detect", "", TRUE, << >>))
    /\ UNCHANGED << engines, file_seq, cache, pc, req, outcome, ncalls, prev, ecall, cmp,
                    files, chunks, pl >>

\* a resolution without the fallback to a registered engine
ResolveEngine_NoFallback(registered, engine) == IF engine \in registered THEN engine ELSE ""

\* the engine translate() hands the text to: the requested one when registered,
\* else the first registered one, else none ("")
ResolveEngine(registered, engine) ==
    IF engine \in registered THEN engine
    ELSE IF available_engines(registered) = << >> THEN ""
    ELSE available_engines(registered)[1]

\* if engine not in self.engines: ...; return await self.engines[engine].translate(...)
ServiceResolve ==
    /\ svc.pc = "resolve"
    /\ LET engine == ResolveEngine(engines, svc.engine)
       IN  IF engine = ""
           THEN /\ svc' = [svc EXCEPT !.pc = "done", !.out = Raised("NoEngine")]
                /\ UNCHANGED ecall
           ELSE LET frame == EngineBegin(engine, svc.text, svc.source_lang,
                                         svc.target_lang, svc.kwargs)
                IN  /\ svc' = [svc EXCEPT !.pc = "engine", !.engine = engine,
                                          !.key = frame.cache_key]
                    /\ ecall' = frame
    /\ UNCHANGED << engines, file_seq, cache, langmemo, pc, req, outcome, ncalls, prev, cmp, trace,
                    files, chunks, pl >>

\* the engine's result or exception is translate()'s own
ServiceReturn ==
    /\ svc.pc = "engine"
    /\ EngineDone
    /\ svc' = [svc EXCEPT !.pc = "done",
                  !.out = IF ecall.pc = "returned" THEN Returned(ecall.ret)
                          ELSE Raised("EngineError")]
    /\ ecall' = NoFrame
    /\ UNCHANGED << engines, file_seq, cache, langmemo, pc, req, outcome, ncalls, prev, cmp, trace,
                    files, chunks, pl >>

\* ------------------------------------------------ a caller of translate

MaxCalls == 2

NoReq == [op |-> "none"]
NoPrev == [req |-> NoReq, out |-> NoOutcome, key |-> NoKey, fresh |-> FALSE]

THello == << Run("a", 2), Run(" ", 1), Run("b", 2), Run(".", 1) >>
TBlank == << Run(" ", 2) >>
TMax   == << Run("a", MAX_TRANSLATION_LENGTH) >>
TLong  == << Run("a", MAX_TRANSLATION_LENGTH + 1) >>

TranslateTexts == { << >>, TBlank, TMax, TLong }
SourceLangs == {"auto", "en"}
TargetLangs == {"zh"}
RequestedEngines == {"openai", "baidu"}
\* the keyword arguments of a call of translate: none (as the document pipeline
\* calls it), or model=request.model, style=request.style as translate_text
\* passes them, where TranslationRequest.model is None unless the client names one
KwargsChoices ==
    { NoKwargs,
      [model |-> None, style |-> "natural"],
      [model |-> None, style |-> "formal"],
      [model |-> "gpt-4", style |-> "formal"] }

TranslateCall ==
    /\ pc = "idle"
    /\ ncalls < MaxCalls
    /\ \E text \in TranslateTexts, sl \in SourceLangs, tl \in TargetLangs,
          engine \in RequestedEngines, kwargs \in KwargsChoices :
         /\ req' = [op |-> "translate", text |-> text, source_lang |-> sl,
                    target_lang |-> tl, engine |-> engine, kwargs |-> kwargs]
         /\ svc' = ServiceBegin(text, sl, tl, engine, kwargs)
    /\ pc' = "translate"
    /\ ncalls' = ncalls + 1
    /\ trace' = << >>
    /\ outcome' = NoOutcome
    /\ UNCHANGED << engines, file_seq, cache, langmemo, prev, ecall, cmp, files, chunks, pl >>

Hit(tr) == \E i \in DOMAIN tr : tr[i].ev = "cache_hit"
BackendCalls(tr) == Cardinality({i \in DOMAIN tr : tr[i].ev = "backend"})
Stored(tr) == \E i \in DOMAIN tr : tr[i].ev = "cache_set" /\ tr[i].ok

TranslateReturn ==
    /\ pc = "translate"
    /\ svc.pc = "done"
    /\ outcome' = svc.out
    /\ prev' = IF svc.out.kind = "ok" /\ Stored(trace)
               THEN [req |-> req, out |-> svc.out, key |-> svc.key, fresh |-> TRUE]
               ELSE NoPrev
    /\ trace' = << >>
    /\ pc' = "idle"
    /\ svc' = NoFrame
    /\ UNCHANGED << engines, file_seq, cache, langmemo, req, ncalls, ecall, cmp, files, chunks, pl >>

\* ------------------------------------ TranslationService.compare_translations

MaxCompares == 1

\* the engines argument: None, or a list of names
NoEngineList == [given |-> FALSE, list |-> << >>]
EngineList(l) == [given |-> TRUE, list |-> l]
CompareEngineChoices ==
    { NoEngineList, EngineList(<< "google", "openai" >>), EngineList(<< "baidu", "baidu" >>),
      EngineList(<< "deepl", "anthropic" >>) }
CompareTexts == { THello, TBlank }

\* _select_best_translation: the loop over results.items(), best_score starting at 0
RECURSIVE SelectBestFrom(_, _, _, _)
SelectBestFrom(results, i, best_result, best_score) ==
    IF i > Len(results) THEN best_result
    ELSE LET score == results[i].v.quality_score
         IN  IF ScoreLess(best_score, score)
             THEN SelectBestFrom(results, i + 1, results[i].v, score)
             ELSE SelectBestFrom(results, i + 1, best_result, best_score)

select_best_translation(results) ==
    IF results = << >> THEN NoResult ELSE SelectBestFrom(results, 1, NoResult, Literal("0.0"))

CompareCall ==
    /\ pc = "idle"
    /\ ncalls < MaxCompares
    /\ \E text \in CompareTexts, sl \in SourceLangs, tl \in TargetLangs,
          el \in CompareEngineChoices :
         /\ req' = [op |-> "compare", text |-> text, source_lang |-> sl, target_lang |-> tl,
                    engines |-> el]
         /\ cmp' = [text |-> text, source_lang |-> sl, target_lang |-> tl,
                    engines |-> IF el.given THEN el.list ELSE available_engines(engines),
                    tasks |-> << >>, i |-> 1, results |-> << >>, errors |-> << >>,
                    ret |-> NoOutcome]
         /\ pc' = IF sl = "auto" THEN "cmp_detect" ELSE "cmp_tasks"
    /\ ncalls' = ncalls + 1
    /\ trace' = << >>
    /\ outcome' = NoOutcome
    /\ UNCHANGED << engines, file_seq, cache, langmemo, prev, svc, ecall, files, chunks, pl >>

\* if source_lang == "auto": source_lang = await detect_language(text)
CompareDetect ==
    /\ pc = "cmp_detect"
    /\ \E raw \in LangAnswers(cmp.text) :
         /\ cmp' = [cmp EXCEPT !.source_lang = detect_language(cmp.text, raw)]
         /\ langmemo' = Remember(cmp.text, raw)
    /\ trace' = Append(trace, Event("detect", "", TRUE, << >>))
    /\ pc' = "cmp_tasks"
    /\ UNCHANGED << engines, file_seq, cache, req, outcome, ncalls, prev, svc, ecall, files, chunks, pl >>

\* the loop that builds tasks: calling an async method only creates its coroutine,
\* no statement of the engine's translate() runs before the coroutine is awaited
CompareTasks ==
    /\ pc = "cmp_tasks"
    /\ LET selected == SelectSeq(cmp.engines, LAMBDA e : e \in engines)
       IN  cmp' = [cmp EXCEPT !.tasks = [k \in DOMAIN selected |->
                                            [engine |-> selected[k], state |-> "created"]]]
    /\ pc' = "cmp_loop"
    /\ UNCHANGED << engines, file_seq, cache, langmemo, req, outcome, ncalls, prev, svc, ecall, trace,
                    files, chunks, pl >>

\* an await that hands the engine the source language as the caller gave it
CompareAwait_Unresolved ==
    /\ pc = "cmp_loop"
    /\ cmp.i <= Len(cmp.tasks)
    /\ ecall' = EngineBegin(cmp.tasks[cmp.i].engine, cmp.text, req.source_lang,
                            cmp.target_lang, NoKwargs)
    /\ cmp' = [cmp EXCEPT !.tasks[cmp.i].state = "running"]
    /\ pc' = "cmp_wait"
    /\ UNCHANGED << engines, file_seq, cache, langmemo, req, outcome, ncalls, prev, svc, trace,
                    files, chunks, pl >>

\* result = await task: the coroutine of the next task starts running
CompareAwait ==
    /\ pc = "cmp_loop"
    /\ cmp.i <= Len(cmp.tasks)
    /\ ecall' = EngineBegin(cmp.tasks[cmp.i].engine, cmp.text, cmp.source_lang,
                            cmp.target_lang, NoKwargs)
    /\ cmp' = [cmp EXCEPT !.tasks[cmp.i].state = "running"]
    /\ pc' = "cmp_wait"
    /\ UNCHANGED << engines, file_seq, cache, langmemo, req, outcome, ncalls, prev, svc, trace,
                    files, chunks, pl >>

\* a loop that gives up at the first engine that raises
CompareCollect_Abort ==
    /\ pc = "cmp_wait"
    /\ EngineDone
    /\ LET engine == cmp.tasks[cmp.i].engine
       IN  cmp' = [cmp EXCEPT
                     !.results = IF ecall.pc = "returned" THEN DictSet(@, engine, ecall.ret)
                                 ELSE @,
                     !.errors = IF ecall.pc = "raised" THEN DictSet(@, engine, "EngineError")
                                ELSE @,
                     !.tasks[cmp.i] = [engine |-> engine, state |-> "done",
                                       settled |-> ecall.pc, ret |-> ecall.ret],
                     !.i = IF ecall.pc = "raised" THEN Len(cmp.tasks) + 1 ELSE @ + 1]
    /\ ecall' = NoFrame
    /\ pc' = "cmp_loop"
    /\ UNCHANGED << engines, file_seq, cache, langmemo, req, outcome, ncalls, prev, svc, trace,
                    files, chunks, pl >>

\* results[engine] = result, or on an exception errors[engine] = str(e)
CompareCollect ==
    /\ pc = "cmp_wait"
    /\ EngineDone
    /\ LET engine == cmp.tasks[cmp.i].engine
       IN  cmp' = [cmp EXCEPT
                     !.results = IF ecall.pc = "returned" THEN DictSet(@, engine, ecall.ret)
                                 ELSE @,
                     !.errors = IF ecall.pc = "raised" THEN DictSet(@, engine, "EngineError")
                                ELSE @,
                     !.tasks[cmp.i] = [engine |-> engine, state |-> "done",
                                       settled |-> ecall.pc, ret |-> ecall.ret],
                     !.i = @ + 1]
    /\ ecall' = NoFrame
    /\ pc' = "cmp_loop"
    /\ UNCHANGED << engines, file_seq, cache, langmemo, req, outcome, ncalls, prev, svc, trace,
                    files, chunks, pl >>

\* a return that does not wait for the calls still to be awaited
CompareFinish_Early ==
    /\ pc = "cmp_loop"
    /\ cmp' = [cmp EXCEPT !.ret =
                 [kind |-> "compared", source_text |-> cmp.text,
                  source_language |-> cmp.source_lang, target_language |-> cmp.target_lang,
                  results |-> cmp.results, errors |-> cmp.errors,
                  best_translation |-> select_best_translation(cmp.results)]]
    /\ pc' = "cmp_done"
    /\ UNCHANGED << engines, file_seq, cache, langmemo, req, outcome, ncalls, prev, svc, ecall, trace,
                    files, chunks, pl >>

\* the dictionary compare_translations returns
CompareFinish ==
    /\ pc = "cmp_loop"
    /\ cmp.i > Len(cmp.tasks)
    /\ cmp' = [cmp EXCEPT !.ret =
                 [kind |-> "compared", source_text |-> cmp.text,
                  source_language |-> cmp.source_lang, target_language |-> cmp.target_lang,
                  results |-> cmp.results, errors |-> cmp.errors,
                  best_translation |-> select_best_translation(cmp.results)]]
    /\ pc' = "cmp_done"
    /\ UNCHANGED << engines, file_seq, cache, langmemo, req, outcome, ncalls, prev, svc, ecall, trace,
                    files, chunks, pl >>

CompareReturn ==
    /\ pc = "cmp_done"
    /\ outcome' = cmp.ret
    /\ cmp' = NoCompare
    /\ trace' = << >>
    /\ pc' = "idle"
    /\ UNCHANGED << engines, file_seq, cache, langmemo, req, ncalls, prev, svc, ecall, files, chunks, pl >>

\* ------------------------------------------------- FileService, api/files.py

MaxRuns == 2

\* a column holding NULL
Null == << Run("", 0) >>

\* '\n'.join(parts)
RECURSIVE Join(_)
Join(parts) ==
    IF parts = << >> THEN << >>
    ELSE IF Len(parts) = 1 THEN parts[1]
    ELSE Cat(Cat(parts[1], << Run("\n", 1) >>), Join(Tail(parts)))

\* the loop of split_text_into_chunks, losing the sentence that opens a new chunk
RECURSIVE ChunkLoop_DropsOverflow(_, _, _)
ChunkLoop_DropsOverflow(sentences, current_chunk, acc) ==
    IF sentences = << >>
    THEN (IF Strip(current_chunk) # << >> THEN Append(acc, Strip(current_chunk)) ELSE acc)
    ELSE LET sentence == Head(sentences)
         IN  IF Strip(sentence) = << >>
             THEN ChunkLoop_DropsOverflow(Tail(sentences), current_chunk, acc)
             ELSE IF TLen(current_chunk) + TLen(sentence) > chunk_size /\ current_chunk # << >>
             THEN ChunkLoop_DropsOverflow(Tail(sentences), << >>,
                                          Append(acc, Strip(current_chunk)))
             ELSE ChunkLoop_DropsOverflow(Tail(sentences),
                            IF current_chunk # << >>
                            THEN Cat(Cat(current_chunk, << Run(".", 1), Run(" ", 1) >>), sentence)
                            ELSE sentence,
                            acc)

\* the loop of split_text_into_chunks over the sentences
RECURSIVE ChunkLoop(_, _, _)
ChunkLoop(sentences, current_chunk, acc) ==
    IF sentences = << >>
    THEN (IF Strip(current_chunk) # << >> THEN Append(acc, Strip(current_chunk)) ELSE acc)
    ELSE LET sentence == Head(sentences)
         IN  IF Strip(sentence) = << >>
             THEN ChunkLoop(Tail(sentences), current_chunk, acc)
             ELSE IF TLen(current_chunk) + TLen(sentence) > chunk_size /\ current_chunk # << >>
             THEN ChunkLoop(Tail(sentences), sentence, Append(acc, Strip(current_chunk)))
             ELSE ChunkLoop(Tail(sentences),
                            IF current_chunk # << >>
                            THEN Cat(Cat(current_chunk, << Run(".", 1), Run(" ", 1) >>), sentence)
                            ELSE sentence,
                            acc)

split_text_into_chunks(text) ==
    IF TLen(text) <= chunk_size THEN << text >>
    ELSE ChunkLoop(SplitAcc(text, << >>, FALSE, TRUE), << >>, << >>)

\* what extract_text_from_file finds on disk: a text, or a file it cannot read
Unreadable == << Run("unreadable", 0) >>
TTwoChunks == << Run("a", 600), Run(".", 1), Run(" ", 1), Run("b", 600), Run(".", 1) >>
TSpaces == << Run(" ", chunk_size + 1) >>
DiskContents == { Unreadable, << >>, THello, TTwoChunks, TSpaces, TLong }

FileIds == {1}
FileSourceLangs == {"auto"}
FileEngines == {"openai"}

\* upload_file: the record is created with translation_status "uploaded"
upload_file ==
    /\ file_seq + 1 \in FileIds
    /\ file_seq' = file_seq + 1
    /\ \E id \in {file_seq + 1}, disk \in DiskContents :
         files' = [k \in DOMAIN files \cup {id} |->
                     IF k = id
                     THEN [disk |-> disk, translation_status |-> "uploaded",
                           translation_progress |-> 0, extracted_text |-> Null,
                           source_language |-> "", target_language |-> "",
                           translation_engine |-> "", translated_content |-> Null,
                           translated_file_path |-> FALSE, error_message |-> "",
                           completed_at |-> FALSE]
                     ELSE files[k]]
    /\ UNCHANGED << engines, cache, langmemo, pc, req, outcome, ncalls, prev, svc, ecall,
                    cmp, trace, chunks, pl >>

\* delete_file: HTTP 404 for an id without a record; else the files on disk are
\* removed and the record is deleted, in any translation_status. FileChunk rows
\* refer to the record by a foreign key without cascade: where the database
\* enforces it (PostgreSQL, the configured one) the commit of a file that has
\* rows fails, the handler answers HTTP 500 and the record stays, its files on
\* disk already gone; where it does not (SQLite) the rows are left behind.
delete_file ==
    /\ \E id \in FileIds :
         IF id \notin DOMAIN files
         THEN /\ outcome' = Raised("HTTP404")
              /\ UNCHANGED files
         ELSE \E enforced \in BOOLEAN :
                IF enforced /\ \E k \in DOMAIN chunks : chunks[k].file_id = id
                THEN /\ files' = [files EXCEPT ![id].disk = Unreadable]
                     /\ outcome' = Raised("HTTP500")
                ELSE /\ files' = [k \in DOMAIN files \ {id} |-> files[k]]
                     /\ outcome' = Raised("deleted")
    /\ UNCHANGED << engines, file_seq, cache, langmemo, pc, req, ncalls, prev, svc, ecall,
                    cmp, trace, chunks, pl >>

\* translate_file without the check of the status: every request is accepted
translate_file_NoCheck ==
    /\ ncalls < MaxRuns
    /\ \E id \in DOMAIN files, sl \in FileSourceLangs, tl \in TargetLangs,
          engine \in FileEngines :
         /\ files' = [files EXCEPT ![id].source_language = sl,
                                   ![id].target_language = tl,
                                   ![id].translation_engine = engine,
                                   ![id].translation_status = "processing",
                                   ![id].translation_progress = 0]
         /\ pl' = [pc |-> "extract", file_id |-> id, chunks |-> << >>, i |-> 0,
                   translated_chunks |-> << >>, failed |-> {}, exception |-> "none"]
    /\ ncalls' = ncalls + 1
    /\ outcome' = Raised("accepted")
    /\ UNCHANGED << engines, file_seq, cache, langmemo, pc, req, prev, svc, ecall, cmp,
                    trace, chunks >>

\* translate_file that leaves the progress of the earlier run in place
translate_file_KeepsProgress ==
    \E id \in DOMAIN files, sl \in FileSourceLangs, tl \in TargetLangs,
       engine \in FileEngines :
        IF files[id].translation_status = "processing"
        THEN /\ outcome' = Raised("HTTP400")
             /\ UNCHANGED << engines, file_seq, cache, langmemo, pc, req, ncalls, prev, svc,
                             ecall, cmp, trace, files, chunks, pl >>
        ELSE /\ ncalls < MaxRuns
             /\ files' = [files EXCEPT ![id].source_language = sl,
                                       ![id].target_language = tl,
                                       ![id].translation_engine = engine,
                                       ![id].translation_status = "processing"]
             /\ pl' = [pc |-> "extract", file_id |-> id, chunks |-> << >>, i |-> 0,
                       translated_chunks |-> << >>, failed |-> {},
                       exception |-> "none"]
             /\ ncalls' = ncalls + 1
             /\ outcome' = Raised("accepted")
             /\ UNCHANGED << engines, file_seq, cache, langmemo, pc, req, prev, svc, ecall,
                             cmp, trace, chunks >>

\* translate_file: a request for a file that is processing is answered with
\* HTTP 400 and changes nothing; else the request is recorded, the status
\* becomes "processing" and the pipeline is scheduled
translate_file ==
    \E id \in DOMAIN files, sl \in FileSourceLangs, tl \in TargetLangs,
       engine \in FileEngines :
        IF files[id].translation_status = "processing"
        THEN /\ outcome' = Raised("HTTP400")
             /\ UNCHANGED << engines, file_seq, cache, langmemo, pc, req, ncalls, prev, svc,
                             ecall, cmp, trace, files, chunks, pl >>
        ELSE /\ ncalls < MaxRuns
             /\ files' = [files EXCEPT ![id].source_language = sl,
                                       ![id].target_language = tl,
                                       ![id].translation_engine = engine,
                                       ![id].translation_status = "processing",
                                       ![id].translation_progress = 0]
             /\ pl' = [pc |-> "extract", file_id |-> id, chunks |-> << >>, i |-> 0,
                       translated_chunks |-> << >>, failed |-> {},
                       exception |-> "none"]
             /\ ncalls' = ncalls + 1
             /\ outcome' = Raised("accepted")
             /\ UNCHANGED << engines, file_seq, cache, langmemo, pc, req, prev, svc, ecall,
                             cmp, trace, chunks >>

\* translate_file_async: the extraction, skipped when extracted_text is set
PipelineExtract ==
    /\ pl.pc = "extract"
    /\ pl.file_id \in DOMAIN files
    /\ LET f == files[pl.file_id]
       IN  \* `not value` for a text column: None and "" are both false
           IF f.extracted_text # Null /\ f.extracted_text # << >>
           THEN /\ pl' = [pl EXCEPT !.pc = "split"]
                /\ UNCHANGED files
           ELSE IF f.disk = Unreadable
           THEN /\ files' = [files EXCEPT ![pl.file_id].translation_status = "failed",
                                          ![pl.file_id].error_message = "extract"]
                /\ pl' = [pl EXCEPT !.pc = "ended", !.exception = "extract"]
           ELSE /\ files' = [files EXCEPT ![pl.file_id].extracted_text = f.disk]
                /\ pl' = [pl EXCEPT !.pc = "split"]
    /\ UNCHANGED << engines, file_seq, cache, langmemo, pc, req, outcome, ncalls, prev, svc, ecall,
                    cmp, trace, chunks >>

\* translate_file_async: the split and the FileChunk rows, one per chunk, "pending"
PipelineSplit ==
    /\ pl.pc = "split"
    /\ pl.file_id \in DOMAIN files
    /\ LET parts == split_text_into_chunks(files[pl.file_id].extracted_text)
       IN  /\ pl' = [pl EXCEPT !.pc = "chunk", !.chunks = parts, !.i = 0]
           /\ chunks' = chunks \o [k \in DOMAIN parts |->
                                     [file_id |-> pl.file_id, chunk_index |-> k - 1,
                                      chunk_text |-> parts[k], translated_text |-> Null,
                                      status |-> "pending"]]
    /\ UNCHANGED << engines, file_seq, cache, langmemo, pc, req, outcome, ncalls, prev, svc, ecall,
                    cmp, trace, files >>

\* progress = int((i / total_chunks) * 100): the quotient and the product are
\* doubles, and int() cuts the fraction off: int((29 / 50) * 100) = 57
progress_of(i, total_chunks) ==
    LET int[x \in Double] ==
            IF x.hi = 0 \/ x.e <= -53 THEN 0
            ELSE IF x.e <= -28 THEN x.hi \div 2 ^ (-x.e - 28)
            ELSE x.hi * 2 ^ (28 + x.e) + x.lo \div 2 ^ (-x.e)
    IN  int[FMul(FDiv(Float(i), Float(total_chunks)), Float(100))]

\* the chunk loop up to the call: progress = int((i / total_chunks) * 100), then
\* translation_service.translate(chunk_text, source_language, target_language, engine)
PipelineChunkStart ==
    /\ pl.pc = "chunk"
    /\ pl.file_id \in DOMAIN files
    /\ pl.i < Len(pl.chunks)
    /\ LET f == files[pl.file_id]
       IN  /\ files' = [files EXCEPT ![pl.file_id].translation_progress =
                                          progress_of(pl.i, Len(pl.chunks))]
           /\ svc' = ServiceBegin(pl.chunks[pl.i + 1], f.source_language, f.target_language,
                                  f.translation_engine, NoKwargs)
    /\ pl' = [pl EXCEPT !.pc = "chunk_wait"]
    /\ trace' = << >>
    /\ UNCHANGED << engines, file_seq, cache, langmemo, pc, req, outcome, ncalls, prev, ecall, cmp,
                    chunks >>

\* the rows query(FileChunk).filter(file_id, chunk_index).first() may return
ChunkRows(file_id, chunk_index) ==
    {k \in DOMAIN chunks : chunks[k].file_id = file_id /\ chunks[k].chunk_index = chunk_index}

\* translate_file_async when the record of its job has been deleted: the task
\* that has not started finds no record and returns; a run under way fails at
\* its next read or commit of the record (the row is gone). The session is
\* never rolled back: inside the chunk loop the loop's except queries the
\* chunk row on the session whose commit failed, which raises again, and the
\* outer except's own commit raises too. The exception leaves the task, which
\* ends without a write: the chunk row stays pending.
PipelineRecordGone ==
    /\ pl.pc \in {"extract", "split", "chunk"}
    /\ pl.file_id \notin DOMAIN files
    /\ pl' = [pl EXCEPT !.pc = "ended", !.exception = "deleted"]
    /\ UNCHANGED << engines, file_seq, cache, langmemo, pc, req, outcome, ncalls, prev, svc,
                    ecall, cmp, trace, files, chunks >>

\* a chunk loop that puts each chunk's text in front of the earlier ones
PipelineChunkDone_Prepends ==
    /\ pl.pc = "chunk_wait"
    /\ svc.pc = "done"
    /\ \E k \in ChunkRows(pl.file_id, pl.i) :
         IF svc.out.kind = "ok"
         THEN /\ chunks' = [chunks EXCEPT ![k].translated_text = svc.out.result.translated_text,
                                          ![k].status = "completed"]
              /\ pl' = [pl EXCEPT !.pc = "chunk", !.i = @ + 1,
                           !.translated_chunks = << svc.out.result.translated_text >> \o @]
         ELSE /\ chunks' = [chunks EXCEPT ![k].status = "failed"]
              /\ pl' = [pl EXCEPT !.pc = "chunk", !.i = @ + 1,
                           !.translated_chunks = << pl.chunks[pl.i + 1] >> \o @,
                           !.failed = @ \cup {pl.i}]
    /\ svc' = NoFrame
    /\ trace' = << >>
    /\ UNCHANGED files
    /\ UNCHANGED << engines, file_seq, cache, langmemo, pc, req, outcome, ncalls, prev, ecall, cmp >>

\* the chunk loop after the call: the translated text and "completed", or in the
\* except branch "failed" and the chunk's own text in translated_chunks
PipelineChunkDone ==
    /\ pl.pc = "chunk_wait"
    /\ svc.pc = "done"
    /\ \E k \in ChunkRows(pl.file_id, pl.i) :
         IF svc.out.kind = "ok"
         THEN /\ chunks' = [chunks EXCEPT ![k].translated_text = svc.out.result.translated_text,
                                          ![k].status = "completed"]
              /\ pl' = [pl EXCEPT !.pc = "chunk", !.i = @ + 1,
                           !.translated_chunks = Append(@, svc.out.result.translated_text)]
         ELSE /\ chunks' = [chunks EXCEPT ![k].status = "failed"]
              /\ pl' = [pl EXCEPT !.pc = "chunk", !.i = @ + 1,
                           !.translated_chunks = Append(@, pl.chunks[pl.i + 1]),
                           !.failed = @ \cup {pl.i}]
    /\ svc' = NoFrame
    /\ trace' = << >>
    /\ UNCHANGED files
    /\ UNCHANGED << engines, file_seq, cache, langmemo, pc, req, outcome, ncalls, prev, ecall, cmp >>

\* a completion that leaves the progress where the chunk loop left it
PipelineFinish_KeepsProgress ==
    /\ pl.pc = "chunk"
    /\ pl.file_id \in DOMAIN files
    /\ pl.i >= Len(pl.chunks)
    /\ \E written \in BOOLEAN :
         /\ files' = IF written
                     THEN [files EXCEPT
                             ![pl.file_id].translated_content = Join(pl.translated_chunks),
                             ![pl.file_id].translated_file_path = TRUE,
                             ![pl.file_id].translation_status = "completed",
                             ![pl.file_id].completed_at = TRUE]
                     ELSE [files EXCEPT
                             ![pl.file_id].translated_content = Join(pl.translated_chunks),
                             ![pl.file_id].translation_status = "failed",
                             ![pl.file_id].error_message = "generate"]
         /\ pl' = [pl EXCEPT !.pc = "ended",
                      !.exception = IF written THEN "none" ELSE "generate"]
    /\ UNCHANGED << engines, file_seq, cache, langmemo, pc, req, outcome, ncalls, prev, svc, ecall,
                    cmp, trace, chunks >>

\* after the loop: translated_content, _generate_translated_file, and "completed"
\* with progress 100 and completed_at; an exception of the generation lands in
\* the outer except, which sets "failed" and the error message
PipelineFinish ==
    /\ pl.pc = "chunk"
    /\ pl.file_id \in DOMAIN files
    /\ pl.i >= Len(pl.chunks)
    /\ \E written \in BOOLEAN :
         /\ files' = IF written
                     THEN [files EXCEPT
                             ![pl.file_id].translated_content = Join(pl.translated_chunks),
                             ![pl.file_id].translated_file_path = TRUE,
                             ![pl.file_id].translation_status = "completed",
                             ![pl.file_id].translation_progress = 100,
                             ![pl.file_id].completed_at = TRUE]
                     ELSE [files EXCEPT
                             ![pl.file_id].translated_content = Join(pl.translated_chunks),
                             ![pl.file_id].translation_status = "failed",
                             ![pl.file_id].error_message = "generate"]
         /\ pl' = [pl EXCEPT !.pc = "ended",
                      !.exception = IF written THEN "none" ELSE "generate"]
    /\ UNCHANGED << engines, file_seq, cache, langmemo, pc, req, outcome, ncalls, prev, svc, ecall,
                    cmp, trace, chunks >>

\* -------------------------------------------------------- specifications

\* the sets of engines the deployment may hold keys for
EngineConfigs == { {}, {"anthropic", "baidu"}, {"openai", "anthropic"}, {"openai", "google", "baidu"} }

NoPipeline == [pc |-> "idle"]
EmptyMap == [k \in {} |-> 0]

InitCommon ==
    /\ cache = EmptyMap
    /\ file_seq = 0
    /\ langmemo = EmptyMap
    /\ pc = "idle"
    /\ req = NoReq
    /\ outcome = NoOutcome
    /\ ncalls = 0
    /\ prev = NoPrev
    /\ svc = NoFrame
    /\ ecall = NoFrame
    /\ cmp = NoCompare
    /\ trace = << >>
    /\ files = EmptyMap
    /\ chunks = << >>
    /\ pl = NoPipeline

Init ==
    /\ engines \in EngineConfigs
    /\ InitCommon

Next ==
    \/ TranslateCall
    \/ ServiceValidate
    \/ ServiceDetect
    \/ ServiceResolve
    \/ EngineCacheGet
    \/ EngineBackend
    \/ EngineStore
    \/ ServiceReturn
    \/ TranslateReturn
    \/ CacheExpire

Spec == Init /\ [][Next]_vars

NextCompare ==
    \/ CompareCall
    \/ CompareDetect
    \/ CompareTasks
    \/ CompareAwait
    \/ EngineCacheGet
    \/ EngineBackend
    \/ EngineStore
    \/ CompareCollect
    \/ CompareFinish
    \/ CompareReturn
    \/ CacheExpire

SpecCompare == Init /\ [][NextCompare]_vars

\* compare with backends that may never answer; the event loop runs every step
\* that can run, so a step that stays possible is eventually taken
NextCompareLive == NextCompare \/ EngineHang

SpecCompareLive == Init /\ [][NextCompareLive]_vars /\ WF_vars(NextCompareLive)

NextPipeline ==
    \/ upload_file
    \/ delete_file
    \/ CacheExpire
    \/ translate_file
    \/ PipelineRecordGone
    \/ PipelineExtract
    \/ PipelineSplit
    \/ PipelineChunkStart
    \/ ServiceValidate
    \/ ServiceDetect
    \/ ServiceResolve
    \/ EngineCacheGet
    \/ EngineBackend
    \/ EngineStore
    \/ ServiceReturn
    \/ PipelineChunkDone
    \/ PipelineFinish

SpecPipeline == Init /\ [][NextPipeline]_vars

\* the steps of the background task: the event loop runs the task whenever it
\* can go on, and the extraction and every backend call return or raise
PipelineStep ==
    \/ PipelineRecordGone
    \/ PipelineExtract
    \/ PipelineSplit
    \/ PipelineChunkStart
    \/ ServiceValidate
    \/ ServiceDetect
    \/ ServiceResolve
    \/ EngineCacheGet
    \/ EngineBackend
    \/ EngineStore
    \/ ServiceReturn
    \/ PipelineChunkDone
    \/ PipelineFinish

\* the deployments of the runs checked for their end: no engine at all, and
\* the requested engine among several
InitPipelineLive ==
    /\ engines \in { {}, {"openai", "google", "baidu"} }
    /\ InitCommon

SpecPipelineLive == InitPipelineLive /\ [][NextPipeline]_vars /\ WF_vars(PipelineStep)

\* ---- the scorer applied to pairs of texts

\* "a b aa bb ab ba 1 11 a1 b1": ten distinct words in 26 characters
TenWords ==
    << Run("a", 1), Run(" ", 1), Run("b", 1), Run(" ", 1), Run("a", 2), Run(" ", 1),
       Run("b", 2), Run(" ", 1), Run("a", 1), Run("b", 1), Run(" ", 1), Run("b", 1),
       Run("a", 1), Run(" ", 1), Run("1", 1), Run(" ", 1), Run("1", 2), Run(" ", 1),
       Run("a", 1), Run("1", 1), Run(" ", 1), Run("b", 1), Run("1", 1) >>

\* "a b aa bb ab ba 1 bbb": seven of the ten words and one other word
SevenOfTen ==
    << Run("a", 1), Run(" ", 1), Run("b", 1), Run(" ", 1), Run("a", 2), Run(" ", 1),
       Run("b", 2), Run(" ", 1), Run("a", 1), Run("b", 1), Run(" ", 1), Run("b", 1),
       Run("a", 1), Run(" ", 1), Run("1", 1), Run(" ", 1), Run("b", 3) >>

ScoreTexts ==
    { << >>,
      << Run("a", 1), Run(" ", 1), Run(".", 3) >>,
      << Run("a", 1), Run(" ", 100), Run("a", 1) >>,
      << Run("a", 3), Run(" ", 1), Run("b", 3), Run(" ", 1), Run("a", 2), Run(".", 1) >>,
      << Run("a", 5), Run("\n", 1), Run("b", 5), Run("\n", 1) >>,
      << Run("*", 2), Run("a", 1), Run("*", 2), Run(" ", 1), Run("*", 1), Run("b", 1),
         Run("*", 1) >>,
      << Run("1", 1), Run(".", 1), Run("1", 1), Run(" ", 1), Run("1", 2), Run(" ", 1),
         Run("a", 1) >>,
      << Run("a", 1), Run(" ", 1), Run("b", 1), Run(" ", 1), Run("a", 1), Run(" ", 1),
         Run("a", 1), Run(" ", 1), Run("a", 1), Run(" ", 1), Run("a", 1) >>,
      << Run("b", 300) >>,
      TenWords,
      SevenOfTen }

ScoreLangs == { << "en", "zh" >>, << "zh", "en" >>, << "en", "fr" >> }

InitScore ==
    /\ engines = {}
    /\ file_seq = 0
    /\ cache = EmptyMap
    /\ langmemo = EmptyMap
    /\ pc = "idle"
    /\ req \in { [text |-> s, translated |-> t, source_lang |-> l[1], target_lang |-> l[2]] :
                    s \in ScoreTexts, t \in ScoreTexts, l \in ScoreLangs }
    /\ outcome = NoOutcome
    /\ ncalls = 0
    /\ prev = NoPrev
    /\ svc = NoFrame
    /\ ecall = NoFrame
    /\ cmp = NoCompare
    /\ trace = << >>
    /\ files = EmptyMap
    /\ chunks = << >>
    /\ pl = NoPipeline

\* one call of analyze_text_quality, the five sub-scores kept beside the result
ScoreCall ==
    /\ pc = "idle"
    /\ pc' = "scored"
    /\ outcome' =
          [kind |-> "score",
           result |->
             [length_score |-> analyze_length_ratio(req.text, req.translated,
                                                     req.source_lang, req.target_lang),
              completeness_score |-> analyze_completeness(req.text, req.translated),
              fluency_score |-> analyze_fluency(req.translated, req.target_lang),
              format_score |-> analyze_format_preservation(req.text, req.translated),
              special_char_score |-> analyze_special_characters(req.text, req.translated),
              score |-> analyze_text_quality(req.text, req.translated,
                                             req.source_lang, req.target_lang)]]
    /\ UNCHANGED << engines, file_seq, cache, langmemo, req, ncalls, prev, svc, ecall, cmp, trace,
                    files, chunks, pl >>

NextScore == ScoreCall

SpecScore == InitScore /\ [][NextScore]_vars

\* ---- the cache key computed for two option dictionaries

KeyPairs ==
    { [k |-> "model", v |-> "gpt-4"], [k |-> "style", v |-> "formal"],
      [k |-> "style", v |-> "natural"], [k |-> "context", v |-> "legal"] }

\* the keyword arguments of a call: distinct names, in the order written
KwargsOrders ==
    { kw \in UNION { [1..n -> KeyPairs] : n \in 0..Len(OptionNames) } :
        \A i, j \in DOMAIN kw : i # j => kw[i].k # kw[j].k }

InitKey ==
    /\ engines = {}
    /\ file_seq = 0
    /\ cache = EmptyMap
    /\ langmemo = EmptyMap
    /\ pc = "idle"
    /\ req \in { [text |-> t, source_lang |-> "en", target_lang |-> "zh", name |-> e,
                   kwargs |-> kw1, kwargs_again |-> kw2] :
                    t \in {THello, TBlank}, e \in {"openai", "google"},
                    kw1 \in KwargsOrders, kw2 \in KwargsOrders }
    /\ outcome = NoOutcome
    /\ ncalls = 0
    /\ prev = NoPrev
    /\ svc = NoFrame
    /\ ecall = NoFrame
    /\ cmp = NoCompare
    /\ trace = << >>
    /\ files = EmptyMap
    /\ chunks = << >>
    /\ pl = NoPipeline

\* two calls of _get_cache_key that differ in the keyword arguments only
KeyCall ==
    /\ pc = "idle"
    /\ pc' = "keyed"
    /\ outcome' =
          [kind |-> "keys",
           result |->
             [first |-> get_cache_key(req.name, req.text, req.source_lang,
                                      req.target_lang, req.kwargs),
              second |-> get_cache_key(req.name, req.text, req.source_lang,
                                       req.target_lang, req.kwargs_again)]]
    /\ UNCHANGED << engines, file_seq, cache, langmemo, req, ncalls, prev, svc, ecall, cmp, trace,
                    files, chunks, pl >>

NextKey == KeyCall

SpecKey == InitKey /\ [][NextKey]_vars

\* ---- split_text_into_chunks applied to texts

\* pieces of text: words of several lengths, with and without white space
\* around them and full stops after them
Segments ==
    { << >>,
      << Run("a", 3) >>,
      << Run("a", 600), Run(".", 1), Run(" ", 1) >>,
      << Run("b", 600), Run(" ", 1), Run(".", 1) >>,
      << Run(" ", 2), Run("a", 400), Run(".", 2) >>,
      << Run("b", 1001), Run(".", 1), Run("\n", 1) >>,
      << Run(" ", 1), Run(".", 1) >> }

SplitTexts == { Cat(Cat(s1, s2), s3) : s1 \in Segments, s2 \in Segments, s3 \in Segments }

InitSplit ==
    /\ engines = {}
    /\ file_seq = 0
    /\ cache = EmptyMap
    /\ langmemo = EmptyMap
    /\ pc = "idle"
    /\ req \in { [text |-> t] : t \in SplitTexts }
    /\ outcome = NoOutcome
    /\ ncalls = 0
    /\ prev = NoPrev
    /\ svc = NoFrame
    /\ ecall = NoFrame
    /\ cmp = NoCompare
    /\ trace = << >>
    /\ files = EmptyMap
    /\ chunks = << >>
    /\ pl = NoPipeline

\* one call of split_text_into_chunks
SplitCall ==
    /\ pc = "idle"
    /\ pc' = "split"
    /\ outcome' = [kind |-> "chunks", result |-> split_text_into_chunks(req.text)]
    /\ UNCHANGED << engines, file_seq, cache, langmemo, req, ncalls, prev, svc, ecall, cmp, trace,
                    files, chunks, pl >>

NextSplit == SplitCall

SpecSplit == InitSplit /\ [][NextSplit]_vars

\* ---- the chunk loop of translate_file_async for documents of many chunks in a
\* deployment without an engine: the translate call of every chunk raises, taken
\* as one step together with the commit of the chunk row's status

MaxChunks == 50

InitLoop ==
    /\ engines = {}
    /\ file_seq = 0
    /\ cache = EmptyMap
    /\ langmemo = EmptyMap
    /\ pc = "idle"
    /\ req \in { [total_chunks |-> n] : n \in 1..MaxChunks }
    /\ outcome = NoOutcome
    /\ ncalls = 0
    /\ prev = NoPrev
    /\ svc = NoFrame
    /\ ecall = NoFrame
    /\ cmp = NoCompare
    /\ trace = << >>
    /\ files = [id \in FileIds |-> [translation_status |-> "processing",
                                     translation_progress |-> 0]]
    /\ chunks = [k \in 1..req.total_chunks |->
                    [file_id |-> 1, chunk_index |-> k - 1, chunk_text |-> THello,
                     translated_text |-> Null, status |-> "pending"]]
    /\ pl = [pc |-> "chunk", file_id |-> 1, i |-> 0]

\* progress = int((i / total_chunks) * 100), committed before the translate call
LoopChunkStart ==
    /\ pl.pc = "chunk"
    /\ pl.i < req.total_chunks
    /\ files' = [files EXCEPT ![pl.file_id].translation_progress =
                                  progress_of(pl.i, req.total_chunks)]
    /\ trace' = Append(trace, [ev |-> "start", i |-> pl.i,
                               progress |-> progress_of(pl.i, req.total_chunks)])
    /\ pl' = [pl EXCEPT !.pc = "chunk_wait"]
    /\ UNCHANGED << engines, file_seq, cache, langmemo, pc, req, outcome, ncalls, prev, svc, ecall,
                    cmp, chunks >>

\* the translate call raises (no engine), the chunk row is committed as failed,
\* and the loop goes on to the next chunk
LoopChunkSettle ==
    /\ pl.pc = "chunk_wait"
    /\ \E k \in ChunkRows(pl.file_id, pl.i) :
         chunks' = [chunks EXCEPT ![k].status = "failed"]
    /\ trace' = Append(trace, [ev |-> "settle", i |-> pl.i])
    /\ pl' = [pl EXCEPT !.pc = "chunk", !.i = pl.i + 1]
    /\ UNCHANGED << engines, file_seq, cache, langmemo, pc, req, outcome, ncalls, prev, svc, ecall,
                    cmp, files >>

NextLoop == LoopChunkStart \/ LoopChunkSettle

SpecLoop == InitLoop /\ [][NextLoop]_vars

\* ---- the cache key as the string that is hashed ----

\* json.dumps(kwargs, sort_keys=True) for string values without quotes
RECURSIVE json_pairs(_, _)
json_pairs(kw, i) ==
    IF i > Len(kw) THEN ""
    ELSE (IF i > 1 THEN ", " ELSE "") \o "\"" \o kw[i].k \o "\": "
           \o (IF kw[i].v = None THEN "null" ELSE "\"" \o kw[i].v \o "\"")
           \o json_pairs(kw, i + 1)

json_dumps_kwargs(kwargs) == "{" \o json_pairs(sort_keys(kwargs), 1) \o "}"

\* content = f"{text}:{source_lang}:{target_lang}:{self.name}:{json.dumps(kwargs, sort_keys=True)}"
\* (md5 of it is the key; the hash is taken to be free of collisions)
cache_key_content(name, text, source_lang, target_lang, kwargs) ==
    text \o ":" \o source_lang \o ":" \o target_lang \o ":" \o name \o ":"
         \o json_dumps_kwargs(kwargs)

\* texts and language arguments as the caller's strings; neither translate nor
\* the adapters restrict the language arguments
StoreRequests ==
    [text : {"hi", "hi:en"}, source_lang : {"en", "zh", "en:zh"},
     target_lang : {"zh", "ja"}, model : {"", None, "gpt-4"}]

\* the parameters an adapter's translate binds: model and style for the
\* adapters that take them
AdapterArgs(e, text, source_lang, target_lang, model) ==
    [text |-> text, source_lang |-> source_lang, target_lang |-> target_lang,
     engine |-> e,
     model |-> IF TakesOptions(e) THEN (IF model = "" THEN DefaultModel(e) ELSE model)
               ELSE "",
     style |-> IF TakesOptions(e) THEN "natural" ELSE ""]

\* the content an adapter hashes for its parameters
AdapterContent(a) ==
    cache_key_content(a.engine, a.text, a.source_lang, a.target_lang,
                      IF TakesOptions(a.engine)
                      THEN << [k |-> "model", v |-> a.model], [k |-> "style", v |-> a.style] >>
                      ELSE << >>)

\* the calls of one asyncio.gather, none of them started
InitStore ==
    /\ engines = {"openai", "google"}
    /\ cache = EmptyMap
    /\ file_seq = 0
    /\ langmemo = EmptyMap
    /\ pc = "idle"
    /\ req = NoReq
    /\ outcome = NoOutcome
    /\ ncalls = 0
    /\ prev = NoPrev
    /\ svc = [t \in 1..MaxCalls |-> [pc |-> "new"]]
    /\ ecall = NoFrame
    /\ cmp = NoCompare
    /\ trace = << >>
    /\ files = EmptyMap
    /\ chunks = << >>
    /\ pl = NoPipeline

\* an adapter's translate with a backend that answers, up to the point where it
\* gives up control: the cached result if the key is present; else the
\* backend's call. The OpenAI adapter awaits the call, and the other calls of
\* the gather run before it resumes; the Google adapter's client is
\* synchronous, so its result is stored in the same step.
StoreCall ==
    \E t \in 1..MaxCalls, e \in engines, r \in StoreRequests :
        LET a == AdapterArgs(e, r.text, r.source_lang, r.target_lang, r.model)
            key == AdapterContent(a)
        IN  /\ svc[t].pc = "new"
            /\ ncalls' = ncalls + 1
            /\ IF key \in DOMAIN cache
               THEN /\ svc' = [svc EXCEPT ![t] = [pc |-> "done", args |-> a, kind |-> "hit"]]
                    /\ req' = a
                    /\ outcome' = [kind |-> "hit", result |-> cache[key]]
                    /\ cache' = cache
               ELSE IF e = "google"
               THEN /\ svc' = [svc EXCEPT ![t] = [pc |-> "done", args |-> a, kind |-> "miss"]]
                    /\ req' = a
                    /\ outcome' = [kind |-> "miss", result |-> [stored_by |-> a]]
                    /\ cache' = [k \in DOMAIN cache \cup {key} |->
                                    IF k = key THEN [stored_by |-> a] ELSE cache[k]]
               ELSE /\ svc' = [svc EXCEPT ![t] = [pc |-> "backend", args |-> a, kind |-> "miss"]]
                    /\ UNCHANGED << req, outcome, cache >>
            /\ UNCHANGED << engines, file_seq, langmemo, pc, prev, ecall, cmp, trace, files,
                            chunks, pl >>

\* the awaited backend call has answered: the adapter builds its result and
\* stores it under the key it computed before the call, over what another call
\* has stored there since
StoreResume ==
    \E t \in 1..MaxCalls :
        /\ svc[t].pc = "backend"
        /\ svc' = [svc EXCEPT ![t].pc = "done"]
        /\ req' = svc[t].args
        /\ outcome' = [kind |-> "miss", result |-> [stored_by |-> svc[t].args]]
        /\ cache' = [k \in DOMAIN cache \cup {AdapterContent(svc[t].args)} |->
                        IF k = AdapterContent(svc[t].args) THEN [stored_by |-> svc[t].args]
                        ELSE cache[k]]
        /\ UNCHANGED << engines, file_seq, langmemo, pc, ncalls, prev, ecall, cmp, trace, files,
                        chunks, pl >>

NextStore == StoreCall \/ StoreResume

SpecStore == InitStore /\ [][NextStore]_vars

\* ================================================================== claims
\* Claims about one call are stated at the point where the call has its outcome
\* and has not yet handed it to its caller.

\* x <= y for two scores
ScoreLeq(x, y) == ~ScoreLess(y, x)

TranslateDone == pc = "translate" /\ svc.pc = "done"
CompareDone == pc = "cmp_done"

ReadFailed(tr) == \E i \in DOMAIN tr : tr[i].ev = "cache_get" /\ ~tr[i].ok
WriteFailed(tr) == \E i \in DOMAIN tr : tr[i].ev = "cache_set" /\ ~tr[i].ok
BackendOkIn(tr) == \E i \in DOMAIN tr : tr[i].ev = "backend" /\ tr[i].ok
BackendFailedIn(tr) == \E i \in DOMAIN tr : tr[i].ev = "backend" /\ ~tr[i].ok
EnginesUsed(tr) == {tr[i].engine : i \in {j \in DOMAIN tr : tr[j].ev # "detect"}}

\* the result an engine builds when the backend answers `answer` to the call in svc
AdapterResult(answer) ==
    EngineResult([EngineBegin(svc.engine, svc.text, svc.source_lang, svc.target_lang,
                              svc.kwargs)
                  EXCEPT !.translated_text = TranslatedText(svc.engine, answer)])

\* C5: a translate call that passes validation hands the text to the requested
\* engine when it is registered; when the requested one is not registered and
\* some engine is, it hands the text to a registered engine and, unless that
\* engine's backend call fails, returns a result naming a registered engine;
\* and it raises the no-engine error, touching no engine, when none is registered.
C5_ProviderResolution ==
    (TranslateDone /\ svc.out.kind # "ValueError") =>
        /\ (req.engine \in engines =>
              /\ EnginesUsed(trace) = {req.engine}
              /\ svc.out.kind = IF BackendFailedIn(trace) THEN "EngineError" ELSE "ok"
              /\ (svc.out.kind = "ok" => svc.out.result.engine = req.engine))
        /\ (req.engine \notin engines /\ engines # {} =>
              /\ EnginesUsed(trace) # {} /\ EnginesUsed(trace) \subseteq engines
              /\ svc.out.kind = IF BackendFailedIn(trace) THEN "EngineError" ELSE "ok"
              /\ (svc.out.kind = "ok" => svc.out.result.engine \in engines))
        /\ (engines = {} => svc.out.kind = "NoEngine" /\ EnginesUsed(trace) = {})

C5_Witness ==
    /\ TranslateDone /\ svc.out.kind = "ok"
    /\ req.engine \notin engines
    /\ svc.out.result.engine \in engines

BlankOrTooLong(text) == Strip(text) = << >> \/ TLen(text) > MAX_TRANSLATION_LENGTH

\* C6: while a translate call with blank or over-long text is in progress, no
\* step touches the detector, the cache or an engine, the cache contents stay as
\* they are, and the call ends with the validation error.
C6_ValidationFirst ==
    [][ (pc = "translate" /\ BlankOrTooLong(req.text)) =>
            /\ trace' = << >>
            /\ cache' = cache /\ langmemo' = langmemo /\ ecall' = ecall
            /\ svc'.pc \in {"done", "idle"}
            /\ (svc'.pc = "done" => svc'.out.kind = "ValueError") ]_vars

C6_Witness ==
    /\ TranslateDone /\ svc.out.kind = "ValueError"
    /\ TLen(req.text) > MAX_TRANSLATION_LENGTH
    /\ cache # EmptyMap

\* C7: the cache is read before the backend is called; a hit returns the stored
\* result without a backend call; a miss followed by the backend's success
\* stores the scored result; and a call that repeats the previous call's request
\* while that call's entry is still stored and the cache can be read returns the
\* previous result without a backend call.
C7_CacheBeforeBackend ==
    TranslateDone =>
        /\ \A i \in DOMAIN trace : trace[i].ev = "backend" =>
              \E j \in 1..(i - 1) : trace[j].ev = "cache_get" /\ trace[j].engine = trace[i].engine
        /\ (Hit(trace) =>
              /\ BackendCalls(trace) = 0
              /\ svc.key \in DOMAIN cache
              /\ svc.out = Returned(json_loads(cache[svc.key])))
        /\ (BackendOkIn(trace) /\ ~WriteFailed(trace) =>
              /\ svc.key \in DOMAIN cache
              /\ json_loads(cache[svc.key]) = svc.out.result
              /\ svc.out.result.quality_score =
                    analyze_text_quality(svc.text, svc.out.result.translated_text,
                                         svc.source_lang, svc.target_lang))
        /\ (prev.fresh /\ req = prev.req /\ ~ReadFailed(trace) =>
              svc.out = prev.out /\ BackendCalls(trace) = 0)

C7_Witness ==
    /\ TranslateDone /\ prev.fresh /\ req = prev.req /\ Hit(trace)
    /\ req.source_lang = "auto" /\ req.engine \notin engines

\* C8 (as amended): a cache read that raises is followed by the backend call, as
\* a miss is; whenever the backend is called, the outcome is the scored result
\* of its answer, or the engine's error, whether or not the cache could be read
\* or written; and with the cache unreachable a repeated request gets the
\* previous result again when the backend answers with the same text again.
C8_CacheFailuresHarmless ==
    TranslateDone =>
        /\ (ReadFailed(trace) => BackendCalls(trace) = 1)
        /\ \A i \in DOMAIN trace : trace[i].ev = "backend" =>
              svc.out = IF trace[i].ok THEN Returned(AdapterResult(trace[i].text))
                        ELSE Raised("EngineError")
        /\ \A i \in DOMAIN trace :
              ( /\ prev.fresh /\ req = prev.req /\ ReadFailed(trace)
                /\ trace[i].ev = "backend" /\ trace[i].ok
                /\ TranslatedText(svc.engine, trace[i].text) = prev.out.result.translated_text )
              => svc.out = prev.out

C8_Witness ==
    /\ TranslateDone /\ ReadFailed(trace) /\ WriteFailed(trace) /\ svc.out.kind = "ok"
    /\ prev.fresh /\ req = prev.req /\ svc.out = prev.out

\* C8 as stated: a call that a working cache would answer (the repeated request,
\* its entry still stored) succeeds with the same translated text when the cache
\* cannot be read.
C8_Original ==
    (TranslateDone /\ prev.fresh /\ req = prev.req /\ ReadFailed(trace)) =>
        /\ svc.out.kind = "ok"
        /\ svc.out.result.translated_text = prev.out.result.translated_text

\* C9: when the backend call fails, translate raises the engine's error, the
\* backend was called once and by one engine only, and the call wrote nothing
\* to the cache.
C9_BackendFailureSurfaces ==
    (TranslateDone /\ BackendFailedIn(trace)) =>
        /\ svc.out = Raised("EngineError")
        /\ BackendCalls(trace) = 1
        /\ Cardinality(EnginesUsed(trace)) = 1
        /\ \A i \in DOMAIN trace : trace[i].ev # "cache_set"

C9_Witness ==
    /\ TranslateDone /\ BackendFailedIn(trace) /\ svc.out.kind = "EngineError"
    /\ req.engine \notin engines /\ Cardinality(engines) > 1

\* the engines a compare call selects, and how the call to each ended
Selected == {e \in SeqToSet(cmp.engines) : e \in engines}
NoRepeats(l) == \A i, j \in DOMAIN l : l[i] = l[j] => i = j
Succeeded(e) ==
    \E i \in DOMAIN trace :
        /\ trace[i].engine = e
        /\ trace[i].ev = "cache_hit" \/ (trace[i].ev = "backend" /\ trace[i].ok)
Failed(e) ==
    \E i \in DOMAIN trace : trace[i].engine = e /\ trace[i].ev = "backend" /\ ~trace[i].ok

ResultsAndErrorsPartition ==
    /\ cmp.ret.kind = "compared"
    /\ DictKeys(cmp.ret.results) \cap DictKeys(cmp.ret.errors) = {}
    /\ DictKeys(cmp.ret.results) \cup DictKeys(cmp.ret.errors) = Selected
    /\ \A e \in Selected :
          /\ e \in DictKeys(cmp.ret.results) <=> Succeeded(e)
          /\ e \in DictKeys(cmp.ret.errors) <=> Failed(e)
    /\ (Cardinality({e \in Selected : Failed(e)}) = 1 =>
          /\ Len(cmp.ret.results) = Cardinality(Selected) - 1
          /\ Len(cmp.ret.errors) = 1)

\* C2 (as amended): a compare call over a list that names no engine twice
\* returns normally with every selected engine in exactly one of results (its
\* call returned) and errors (its call raised), the two key sets disjoint and
\* together the selected engines; one failing engine among N leaves N-1 results
\* and one error.
C2_PartialFailureContained ==
    (CompareDone /\ NoRepeats(cmp.engines)) => ResultsAndErrorsPartition

C2_Witness ==
    /\ CompareDone /\ NoRepeats(cmp.engines)
    /\ Cardinality(Selected) = 3
    /\ Len(cmp.ret.errors) = 1 /\ Len(cmp.ret.results) = 2
    /\ cmp.ret.errors[1].k = cmp.tasks[1].engine

\* C2 as stated: the same for every compare call.
C2_Original == CompareDone => ResultsAndErrorsPartition

\* C3 as stated: the best translation is absent exactly when results is empty,
\* and otherwise is one of the results and no result scores higher, a best
\* score of 0 included.
C3_Original ==
    CompareDone =>
        LET best == cmp.ret.best_translation
            scored == {cmp.ret.results[i].v : i \in DOMAIN cmp.ret.results}
        IN  /\ best = NoResult <=> cmp.ret.results = << >>
            /\ (cmp.ret.results # << >> =>
                  /\ best \in scored
                  /\ \A r \in scored : ScoreLeq(r.quality_score, best.quality_score))

\* C10 as stated: every selected engine's call is started before any call is
\* awaited, so that while one call is running or has settled no call is still
\* waiting to start.
C10_Original ==
    pc \in {"cmp_loop", "cmp_wait"} =>
        \A k, j \in DOMAIN cmp.tasks :
            cmp.tasks[k].state \in {"running", "done"} => cmp.tasks[j].state # "created"

\* what the code does instead: at most one engine's call is in progress at a time
AtMostOneCallInFlight ==
    pc \in {"cmp_loop", "cmp_wait"} =>
        Cardinality({k \in DOMAIN cmp.tasks : cmp.tasks[k].state = "running"}) <= 1

\* a best translation, when there is one, is a result that no result outscores
BestIsMaximal ==
    (CompareDone /\ cmp.ret.best_translation # NoResult) =>
        /\ \E i \in DOMAIN cmp.ret.results : cmp.ret.results[i].v = cmp.ret.best_translation
        /\ \A i \in DOMAIN cmp.ret.results :
              ScoreLeq(cmp.ret.results[i].v.quality_score, cmp.ret.best_translation.quality_score)

\* the pipeline run has ended and its job can be inspected
PipelineEnded == pl.pc = "ended" /\ pl.file_id \in DOMAIN files

\* C1 as stated: when the translation of the single chunk of a document fails
\* and nothing outside the chunk loop raises, the job ends completed, not
\* failed, the chunk's record has status failed, and the translated text of
\* that record is the chunk's own source text.
C1_Original ==
    (PipelineEnded /\ Len(pl.chunks) = 1 /\ pl.failed = {0} /\ pl.exception = "none") =>
        /\ files[pl.file_id].translation_status = "completed"
        /\ \E k \in ChunkRows(pl.file_id, 0) :
              /\ chunks[k].status = "failed"
              /\ chunks[k].translated_text = chunks[k].chunk_text

\* what the code does: a run in which the translation of a chunk failed, and
\* nothing outside the chunk loop raised, ends with the job completed; every
\* failed chunk has a record with status failed and has its own text in the
\* list the output is reassembled from; for a document of a single chunk the
\* translated content of the job is that chunk's text.
ChunkFailureContained ==
    (PipelineEnded /\ pl.failed # {} /\ pl.exception = "none") =>
        LET f == files[pl.file_id]
        IN  /\ f.translation_status = "completed"
            /\ Len(pl.translated_chunks) = Len(pl.chunks)
            /\ \A i \in pl.failed :
                  /\ pl.translated_chunks[i + 1] = pl.chunks[i + 1]
                  /\ \E k \in ChunkRows(pl.file_id, i) :
                        chunks[k].status = "failed" /\ chunks[k].chunk_text = pl.chunks[i + 1]
            /\ (Len(pl.chunks) = 1 => f.translated_content = pl.chunks[1])

\* the first run of a single-chunk document has ended completed, its chunk
\* failed: the one record of the chunk is failed and its translated_text is NULL
FailedChunkRowWithoutText ==
    /\ PipelineEnded /\ pl.failed = {0} /\ pl.chunks = << THello >>
    /\ engines # {}
    /\ files[pl.file_id].translation_status = "completed"
    /\ files[pl.file_id].translated_content = THello
    /\ \A k \in ChunkRows(pl.file_id, 0) :
          chunks[k].status = "failed" /\ chunks[k].translated_text = Null

\* C4: a run that ends with no exception outside the chunk loop leaves the job
\* completed with progress 100 and the completion time set; a run in which the
\* extraction or the generation of the output raised leaves it failed with the
\* captured error as its error message.
C4_RunEndsCompletedOrFailed ==
    PipelineEnded =>
        LET f == files[pl.file_id]
        IN  IF pl.exception = "none"
            THEN /\ f.translation_status = "completed"
                 /\ f.translation_progress = 100
                 /\ f.completed_at
            ELSE /\ f.translation_status = "failed"
                 /\ f.error_message = pl.exception

C4_Witness ==
    /\ PipelineEnded /\ pl.exception = "generate"
    /\ files[pl.file_id].translation_status = "failed"
    /\ files[pl.file_id].error_message = "generate"
    /\ Len(pl.chunks) = 2 /\ pl.failed = {}

\* C11 as stated: when the call to a selected engine never settles, compare
\* still returns, with that engine in errors under the message "timeout".
C11_Original ==
    \A e \in AllEngines :
        (pc = "cmp_wait" /\ ecall.pc = "hung" /\ ecall.engine = e)
            ~> (CompareDone /\ e \in DictKeys(cmp.ret.errors)
                            /\ DictGet(cmp.ret.errors, e) = "timeout")

\* what the code does instead: compare stays at its await for as long as the call hangs
HungCallBlocksCompare ==
    [][(pc = "cmp_wait" /\ ecall.pc = "hung") => (pc' = "cmp_wait" /\ cmp' = cmp)]_vars

\* C12: when a run has reassembled its output, the translated content is the
\* newline join of one segment per chunk, in chunk index order; the segment of
\* a failed chunk is the chunk's own text and the segment of any other chunk
\* is the translated text stored in a completed record of that index.
C12_ReassemblyInIndexOrder ==
    (PipelineEnded /\ pl.exception # "extract") =>
        /\ Len(pl.translated_chunks) = Len(pl.chunks)
        /\ files[pl.file_id].translated_content = Join(pl.translated_chunks)
        /\ \A k \in DOMAIN pl.chunks :
              IF (k - 1) \in pl.failed
              THEN pl.translated_chunks[k] = pl.chunks[k]
              ELSE \E r \in ChunkRows(pl.file_id, k - 1) :
                      /\ chunks[r].status = "completed"
                      /\ chunks[r].chunk_text = pl.chunks[k]
                      /\ chunks[r].translated_text = pl.translated_chunks[k]

C12_Witness ==
    /\ PipelineEnded /\ pl.chunks = << << Run("a", 600) >>, << Run("b", 600) >> >>
    /\ pl.failed = {0}
    /\ files[pl.file_id].translated_content =
          << Run("a", 600), Run("\n", 1), Run("b", 3) >>

\* C13 as stated: a job whose status is completed or failed keeps that status
\* through every later step, a new translate request included.
C13_Original ==
    [][\A id \in DOMAIN files \cap DOMAIN files' :
          files[id].translation_status \in {"completed", "failed"} =>
              files'[id].translation_status = files[id].translation_status]_vars

\* what the code does instead: the only step that leaves completed or failed is
\* a translate request, which puts the job back to processing with progress 0
TerminalLeftOnlyByRestart ==
    [][\A id \in DOMAIN files \cap DOMAIN files' :
          ( /\ files[id].translation_status \in {"completed", "failed"}
            /\ files'[id].translation_status # files[id].translation_status )
          => /\ files'[id].translation_status = "processing"
             /\ files'[id].translation_progress = 0
             /\ pl'.pc = "extract" /\ ncalls' = ncalls + 1]_vars

\* C14 as stated: every job has a status among pending, processing, completed
\* and failed and a progress from 0 to 100, from its upload on.
C14_Original ==
    \A id \in DOMAIN files :
        /\ files[id].translation_status \in {"pending", "processing", "completed", "failed"}
        /\ files[id].translation_progress \in 0..100

\* what the code does instead: an uploaded job has the status "uploaded" until
\* its first translate request; the progress stays within 0..100
StatusesOfTheCode ==
    \A id \in DOMAIN files :
        /\ files[id].translation_status \in {"uploaded", "processing", "completed", "failed"}
        /\ files[id].translation_progress \in 0..100
        /\ (files[id].translation_status = "uploaded" => ncalls = 0)


\* ---- C15: one pipeline execution per job ----

\* a pipeline execution is active on its job from its scheduling to its last step
PipelineActive == pl.pc \notin {"idle", "ended"} /\ pl.file_id \in DOMAIN files

\* a step that schedules a pipeline execution
Scheduled == pl'.pc = "extract" /\ pl # pl'

\* a step that answers a request with HTTP 400
Rejected == outcome'.kind = "HTTP400" /\ outcome # outcome'

\* C15: at no time are two pipeline executions active on the same job: while
\* an execution is active the job is "processing"; a start request for a
\* processing job is rejected and leaves the job, its chunks and the running
\* execution unchanged; and an execution is scheduled only by a start request
\* that moved the job from another status into "processing", when no
\* execution was active
C15_OneExecutionPerJob ==
    /\ [](PipelineActive => files[pl.file_id].translation_status = "processing")
    /\ [][/\ Rejected => UNCHANGED << files, chunks, pl, ncalls >>
          /\ (\E id \in DOMAIN files :
                  files[id].translation_status = "processing")
                => (ncalls' = ncalls /\ ~Scheduled)
          /\ Scheduled =>
                /\ ~PipelineActive
                /\ ncalls' = ncalls + 1
                /\ outcome'.kind = "accepted"
                /\ files[pl'.file_id].translation_status # "processing"
                /\ files'[pl'.file_id].translation_status = "processing"]_vars

\* a start request was rejected in the middle of a run, after one chunk
C15_Witness ==
    /\ outcome.kind = "HTTP400"
    /\ pl.pc = "chunk_wait"
    /\ pl.i = 1
    /\ pl.file_id \in DOMAIN files
    /\ files[pl.file_id].translation_status = "processing"


\* ---- C16: score bounds ----

Scored == pc = "scored"

\* the sub-scores of r weighted and added up as doubles, first to last
WeightedSum(r) ==
    FAdd(FAdd(FAdd(FAdd(FAdd(Literal("0.0"), FMul(r.length_score, Literal("0.2"))),
                             FMul(r.completeness_score, Literal("0.25"))),
                        FMul(r.fluency_score, Literal("0.25"))),
                   FMul(r.format_score, Literal("0.15"))),
              FMul(r.special_char_score, Literal("0.15")))

\* C16: for every pair of texts and of languages the quality score lies in
\* [0, 100], each of the five sub-scores lies in [0, 100], and the score is the
\* sum of the sub-scores weighted 0.20, 0.25, 0.25, 0.15, 0.15, or 100 when
\* the rounded sum is above 100
C16_ScoreBounds ==
    Scored =>
        LET r == outcome.result
        IN  /\ \A x \in { r.score, r.length_score, r.completeness_score, r.fluency_score,
                           r.format_score, r.special_char_score } :
                  ScoreLeq(Literal("0.0"), x) /\ ScoreLeq(x, Literal("100.0"))
            /\ r.score = IF ScoreLess(Literal("100.0"), WeightedSum(r)) THEN Literal("100.0")
                         ELSE WeightedSum(r)

\* a pair whose completeness penalties add up to more than 100 points, scored
\* with a length ratio below the expected range
C16_Witness ==
    /\ Scored
    /\ req.text = << Run("a", 1), Run(" ", 100), Run("a", 1) >>
    /\ req.translated = << Run("a", 1), Run(" ", 1), Run(".", 3) >>
    /\ outcome.result.completeness_score = Literal("0.0")
    /\ ScoreLess(Literal("0.0"), outcome.result.length_score)
    /\ ScoreLess(outcome.result.length_score, Literal("100.0"))
    /\ outcome.result.fluency_score = Float(65)


\* ---- C17: the cache key does not depend on the order of the options ----

Keyed == pc = "keyed"

\* C17: two computations of the cache key with the same text, languages and
\* provider, and options that hold the same name/value pairs in any order,
\* give the same key
C17_KeyIgnoresOptionOrder ==
    (Keyed /\ SeqToSet(req.kwargs) = SeqToSet(req.kwargs_again)) =>
        outcome.result.first = outcome.result.second

\* the same three options written in two different orders
C17_Witness ==
    /\ Keyed
    /\ req.kwargs = << [k |-> "style", v |-> "formal"], [k |-> "model", v |-> "gpt-4"],
                       [k |-> "context", v |-> "legal"] >>
    /\ req.kwargs_again = << [k |-> "context", v |-> "legal"],
                             [k |-> "style", v |-> "formal"],
                             [k |-> "model", v |-> "gpt-4"] >>
    /\ outcome.result.first = outcome.result.second

\* options that differ in a value give different keys
KeyTellsOptionsApart ==
    (Keyed /\ SeqToSet(req.kwargs) # SeqToSet(req.kwargs_again)) =>
        outcome.result.first # outcome.result.second


\* ---- C18: the chunks cover the sentences of the text ----

SplitDone == pc = "split"

\* the sentences of a text: the pieces between its terminators that are not empty
Sentences(text) == SelectSeq(SplitAcc(text, << >>, FALSE, TRUE), LAMBDA s : s # << >>)

\* the sentences of a text, each trimmed, those that are blank left out
TrimmedSentences(text) ==
    LET kept == SelectSeq(SplitAcc(text, << >>, FALSE, TRUE), LAMBDA s : Strip(s) # << >>)
    IN  [i \in DOMAIN kept |-> Strip(kept[i])]

RECURSIVE Flatten(_)
Flatten(ss) == IF ss = << >> THEN << >> ELSE Head(ss) \o Flatten(Tail(ss))

\* C18 as stated: the sentences read from the chunks in order are exactly the
\* non-empty sentences of the text
C18_Original ==
    SplitDone =>
        Flatten([i \in DOMAIN outcome.result |-> Sentences(outcome.result[i])])
            = Sentences(req.text)

\* C18, amended: the sentences read from the chunks in order, each trimmed of
\* the white space around it, are the sentences of the text, each trimmed and
\* the blank ones left out: none is dropped, duplicated or reordered
C18_ChunksCoverSentences ==
    SplitDone =>
        Flatten([i \in DOMAIN outcome.result |-> TrimmedSentences(outcome.result[i])])
            = TrimmedSentences(req.text)

\* a text of three sentences split into two chunks, the first holding two
C18_Witness ==
    /\ SplitDone
    /\ Len(TrimmedSentences(req.text)) = 3
    /\ Len(outcome.result) = 2
    /\ Len(TrimmedSentences(outcome.result[1])) = 2


\* ---- C19: the high-overlap penalty of the completeness sub-score ----

\* the number of distinct words of the source that occur in the translation
Overlap(source_text, translated_text) ==
    Cardinality(SeqToSet(Words(source_text)) \cap SeqToSet(Words(translated_text)))

DistinctWords(text) == Cardinality(SeqToSet(Words(text)))

\* translations of similar length: neither text more than twice the other
SimilarLength(s, t) == TLen(t) <= 2 * TLen(s) /\ TLen(s) <= 2 * TLen(t)

\* C19 as stated: a non-empty pair in which at least 70% of the distinct words
\* of the source occur in the translation has the penalty of 40 points in its
\* completeness sub-score, and a text given as its own translation scores
\* strictly lower than a translation of similar length sharing no word with it
C19_Original ==
    (Scored /\ req.text # << >> /\ req.translated # << >> /\ DistinctWords(req.text) > 0) =>
        /\ (10 * Overlap(req.text, req.translated) >= 7 * DistinctWords(req.text))
              => ScoreLeq(outcome.result.completeness_score, Float(100 - 40))
        /\ (req.translated = req.text) =>
              \A t \in ScoreTexts :
                  (t # << >> /\ Overlap(req.text, t) = 0 /\ SimilarLength(req.text, t))
                      => ScoreLess(outcome.result.completeness_score,
                                   analyze_completeness(req.text, t))

\* what the code does: the penalty is taken for a source of more than 20
\* characters when more than 70% of its distinct words occur in the translation,
\* and not taken for a shorter source or a smaller share
PenaltyAboveSeventyPercent ==
    (Scored /\ req.text # << >> /\ req.translated # << >>) =>
        /\ (TLen(req.text) > 20
              /\ 10 * Overlap(req.text, req.translated) > 7 * DistinctWords(req.text))
              => ScoreLeq(outcome.result.completeness_score, Float(100 - 40))
        /\ (TLen(req.text) <= 20
              \/ 10 * Overlap(req.text, req.translated) < 7 * DistinctWords(req.text))
              => outcome.result.completeness_score \in {Literal("100.0"), Float(70), Float(50), Float(20)}

\* exactly seven of the ten distinct words of the source occur in the
\* translation, and no penalty is taken
ExactlySeventyPercentUnpenalised ==
    /\ Scored
    /\ req.text = TenWords
    /\ req.translated = SevenOfTen
    /\ 10 * Overlap(req.text, req.translated) = 7 * DistinctWords(req.text)
    /\ outcome.result.completeness_score = Literal("100.0")


\* ---- C20: chunks in order, progress by the chunk ----

\* floor(i / total_chunks * 100)
FloorProgress(i, total_chunks) == (i * 100) \div total_chunks

\* the translate calls started so far
Starts(tr) == SelectSeq(tr, LAMBDA e : e.ev = "start")

\* the chunks are taken one after the other in ascending order: the events
\* are start 0, settle 0, start 1, settle 1, ...
StrictlySequential(tr) ==
    \A k \in DOMAIN tr :
        /\ tr[k].i = (k - 1) \div 2
        /\ tr[k].ev = IF k % 2 = 1 THEN "start" ELSE "settle"

\* C20 as stated: within one run the chunks are translated strictly one after
\* the other in ascending order, the progress set before chunk i is
\* floor(i / total_chunks * 100), and the progress never decreases
C20_Original ==
    /\ StrictlySequential(trace)
    /\ \A k \in DOMAIN Starts(trace) :
          /\ Starts(trace)[k].progress = FloorProgress(Starts(trace)[k].i, req.total_chunks)
          /\ k > 1 => Starts(trace)[k].progress >= Starts(trace)[k - 1].progress
    /\ pl.pc = "chunk_wait" =>
          files[pl.file_id].translation_progress = FloorProgress(pl.i, req.total_chunks)

\* what the code does: the order and the monotonic progress hold, and the
\* progress is the floor or, by floating-point rounding, one below it
SequentialAndMonotonic ==
    /\ StrictlySequential(trace)
    /\ \A k \in DOMAIN Starts(trace) :
          /\ Starts(trace)[k].progress
                \in { FloorProgress(Starts(trace)[k].i, req.total_chunks),
                      FloorProgress(Starts(trace)[k].i, req.total_chunks) - 1 }
          /\ Starts(trace)[k].progress \in 0..99
          /\ k > 1 => Starts(trace)[k].progress >= Starts(trace)[k - 1].progress


\* ---- C21: the chunks and the budget ----

\* every sentence of the text fits within the budget
SentencesFit(text) ==
    \A k \in DOMAIN Sentences(text) : TLen(Sentences(text)[k]) <= chunk_size

\* C21 as stated: when each sentence of the text fits within the budget, every
\* chunk is at most as long as the budget; and a text no longer than the
\* budget comes back as one chunk equal to the text
C21_Original ==
    SplitDone =>
        /\ SentencesFit(req.text) =>
              \A k \in DOMAIN outcome.result : TLen(outcome.result[k]) <= chunk_size
        /\ TLen(req.text) <= chunk_size => outcome.result = << req.text >>

\* what the code does: the test that closes a chunk leaves out the two
\* characters of the ". " put between sentences, so a chunk may pass the
\* budget by two characters and no more
ChunksWithinBudgetAndSeparator ==
    SplitDone =>
        /\ SentencesFit(req.text) =>
              \A k \in DOMAIN outcome.result : TLen(outcome.result[k]) <= chunk_size + 2
        /\ TLen(req.text) <= chunk_size => outcome.result = << req.text >>

\* two sentences of 600 and 400 characters joined into a chunk of 1002
ChunkOverBudget ==
    /\ SplitDone
    /\ SentencesFit(req.text)
    /\ \E k \in DOMAIN outcome.result :
          outcome.result[k] = << Run("a", 600), Run(".", 1), Run(" ", 1), Run("a", 400) >>


\* ---- C22: ties between results ----

\* the highest quality_score among the results
HighestScore(results) ==
    CHOOSE m \in {results[i].v.quality_score : i \in DOMAIN results} :
        \A i \in DOMAIN results : ScoreLeq(results[i].v.quality_score, m)

\* the positions of the results that have the highest score
Leaders(results) ==
    {i \in DOMAIN results : results[i].v.quality_score = HighestScore(results)}

FirstLeader(results) == CHOOSE i \in Leaders(results) : \A j \in Leaders(results) : i <= j

\* C22 as stated: when two or more results share the highest quality_score,
\* best is the first of them in the iteration order of results
C22_Original ==
    (CompareDone /\ cmp.ret.kind = "compared" /\ Cardinality(Leaders(cmp.ret.results)) >= 2) =>
        cmp.ret.best_translation = cmp.ret.results[FirstLeader(cmp.ret.results)].v

\* what the code does: the first of the leaders is best when their score is
\* above 0, and there is no best when it is 0
TieKeepsFirstAboveZero ==
    (CompareDone /\ cmp.ret.kind = "compared" /\ Cardinality(Leaders(cmp.ret.results)) >= 2) =>
        cmp.ret.best_translation =
            IF ScoreLess(Literal("0.0"), HighestScore(cmp.ret.results))
            THEN cmp.ret.results[FirstLeader(cmp.ret.results)].v
            ELSE NoResult

\* two results tied at a score above 0, the first of them best
TieAboveZero ==
    /\ CompareDone /\ cmp.ret.kind = "compared"
    /\ Cardinality(Leaders(cmp.ret.results)) >= 2
    /\ ScoreLess(Literal("0.0"), HighestScore(cmp.ret.results))
    /\ cmp.ret.best_translation = cmp.ret.results[1].v
    /\ cmp.ret.results[2].v # cmp.ret.results[1].v


\* ---- C23: one detection per compare ----

\* the number of calls of the language detector in the events of the call
Detections(tr) == Len(SelectSeq(tr, LAMBDA e : e.ev = "detect"))

\* the language the detector gave for the text of the compare call
DetectedLanguage ==
    detect_language(cmp.text, IF cmp.text \in DOMAIN langmemo THEN langmemo[cmp.text]
                              ELSE "raise")

\* C23: in a compare with source_lang "auto" the detector is called exactly
\* once, before any engine; every engine called gets the language it gave, and
\* that language is the source language of the comparison and of every result
C23_OneDetectionPerCompare ==
    (pc \in {"cmp_tasks", "cmp_loop", "cmp_wait", "cmp_done"} /\ req.source_lang = "auto") =>
        /\ Detections(trace) = 1
        /\ trace[1].ev = "detect"
        /\ cmp.source_lang = DetectedLanguage
        /\ pc = "cmp_wait" => ecall.source_lang = DetectedLanguage
        /\ CompareDone =>
              /\ cmp.ret.source_language = DetectedLanguage
              /\ \A i \in DOMAIN cmp.ret.results :
                    cmp.ret.results[i].v.source_language = DetectedLanguage

\* a compare with "auto" in which two engines answered for the detected "zh"
C23_Witness ==
    /\ CompareDone
    /\ req.source_lang = "auto"
    /\ Detections(trace) = 1
    /\ cmp.ret.source_language = "zh"
    /\ Len(cmp.ret.results) = 2
    /\ cmp.ret.results[1].v.source_language = "zh"
    /\ cmp.ret.results[2].v.source_language = "zh"


\* ---- C24: best is selected after every call has settled ----

\* the outcome of the call of task k is in results or in errors
OutcomeRecorded(k) ==
    /\ cmp.tasks[k].state = "done"
    /\ cmp.tasks[k].settled = "returned" =>
          \E i \in DOMAIN cmp.ret.results :
              /\ cmp.ret.results[i].k = cmp.tasks[k].engine
              /\ cmp.ret.results[i].v = cmp.tasks[k].ret
    /\ cmp.tasks[k].settled = "raised" => cmp.tasks[k].engine \in DictKeys(cmp.ret.errors)

\* results and errors are as they were when best was selected, and best is
\* the selection from those results
MapsFinal ==
    /\ cmp.ret.results = cmp.results
    /\ cmp.ret.errors = cmp.errors
    /\ cmp.ret.best_translation = select_best_translation(cmp.results)

\* C24 as stated: when best is selected every call that was issued has
\* settled and its outcome is in results or errors, and neither map changes
\* afterwards
C24_Original ==
    CompareDone => (MapsFinal /\ \A k \in DOMAIN cmp.tasks : OutcomeRecorded(k))

\* C24, amended: the same for a compare over a list that names no engine
\* twice; for any list every call has settled when best is selected, its
\* engine has an entry in results or errors, and neither map changes afterwards
C24_BestAfterAllSettled ==
    CompareDone =>
        /\ MapsFinal
        /\ \A k \in DOMAIN cmp.tasks :
              /\ cmp.tasks[k].state = "done"
              /\ cmp.tasks[k].engine \in DictKeys(cmp.ret.results) \cup DictKeys(cmp.ret.errors)
        /\ NoRepeats(cmp.engines) => \A k \in DOMAIN cmp.tasks : OutcomeRecorded(k)

\* three calls were issued, the second raised, and best was selected from the
\* two results
C24_Witness ==
    /\ CompareDone
    /\ Len(cmp.tasks) = 3
    /\ cmp.tasks[2].settled = "raised"
    /\ Len(cmp.ret.results) = 2
    /\ cmp.ret.best_translation # NoResult


\* ---- C25: a job does not stay in processing ----

\* the status of a job, "none" before its upload
StatusOf(id) == IF id \in DOMAIN files THEN files[id].translation_status ELSE "none"

\* C25 as stated: a job that a start request moved into processing eventually
\* is completed or failed, the extraction and every backend call returning or
\* raising
C25_Original ==
    \A id \in FileIds :
        (StatusOf(id) = "processing") ~> (StatusOf(id) \in {"completed", "failed"})

\* what the code does: a processing job is completed or failed in the end, or
\* delete_file has removed its record
ProcessingEndsOrDeleted ==
    \A id \in FileIds :
        (StatusOf(id) = "processing") ~> (StatusOf(id) \in {"completed", "failed", "none"})

\* a job was deleted while its run was in the chunk loop, and the run has ended
\* without a word about the job, a chunk row of it still pending
DeletedWhileProcessing ==
    /\ pl.pc = "ended"
    /\ pl.exception = "deleted"
    /\ pl.file_id \notin DOMAIN files
    /\ \E k \in DOMAIN chunks :
          /\ chunks[k].file_id = pl.file_id
          /\ chunks[k].chunk_index > 0
          /\ chunks[k].status = "pending"


\* ---- C26: progress 100 and completed ----

\* C26: in every state of a job its progress is 100 exactly when its status
\* is completed; while a chunk is being translated the progress is below 100
C26_FullProgressIffCompleted ==
    /\ \A id \in DOMAIN files :
          files[id].translation_progress = 100 <=> files[id].translation_status = "completed"
    /\ (pl.pc = "chunk_wait" /\ pl.file_id \in DOMAIN files) =>
          files[pl.file_id].translation_progress < 100

\* a job that had been completed was started again: processing at progress 0
C26_Witness ==
    /\ pl.pc = "extract"
    /\ pl.file_id \in DOMAIN files
    /\ files[pl.file_id].completed_at
    /\ files[pl.file_id].translation_status = "processing"
    /\ files[pl.file_id].translation_progress = 0


\* ---- C27: one FileChunk row per job and chunk index ----

\* the rows the current run created: the last Len(pl.chunks) rows of the table
RowsOfThisRun ==
    {k \in DOMAIN chunks : k > Len(chunks) - Len(pl.chunks)}

\* C27: after any sequence of start requests and runs there is at most one
\* FileChunk row per job and chunk index (so that the row a run writes for an
\* index is the row it created)
C27_Original ==
    \A k1, k2 \in DOMAIN chunks :
        (chunks[k1].file_id = chunks[k2].file_id
           /\ chunks[k1].chunk_index = chunks[k2].chunk_index) => k1 = k2

\* the second run of a job has gone through its chunk loop and the row it
\* created for chunk 0 is still pending: the outcome went to the earlier row
StaleRowWritten ==
    /\ pl.pc = "ended"
    /\ ncalls = 2
    /\ Len(pl.chunks) > 0
    /\ \E k \in RowsOfThisRun : chunks[k].chunk_index = 0 /\ chunks[k].status = "pending"

\* within a job's first run the rows are one per index
OneRowPerIndexInFirstRun ==
    ncalls <= 1 =>
        \A k1, k2 \in DOMAIN chunks :
          (chunks[k1].file_id = chunks[k2].file_id
             /\ chunks[k1].chunk_index = chunks[k2].chunk_index) => k1 = k2


\* ---- C28: the text an adapter is invoked with ----

\* C28: no adapter is ever invoked with text that is empty or white space only,
\* or longer than MAX_TRANSLATION_LENGTH, through translate, compare_translations
\* or the chunk calls of the document pipeline
C28_Original ==
    ecall # NoFrame => ValidText(ecall.text)

\* compare_translations has handed a text of white space only to an adapter
AdapterGivenBlankText ==
    /\ pc = "cmp_wait"
    /\ ecall # NoFrame
    /\ Strip(ecall.text) = << >>


\* ---- C29: a cache hit is sound ----

\* C29: the result returned from the cache for a request was stored by a
\* request with the same text, source language, target language, provider and
\* options, and two requests that differ in one of these fields do not have the
\* same content before hashing
C29_Original ==
    /\ outcome.kind = "hit" => outcome.result.stored_by = req
    /\ \A k \in DOMAIN cache :
          cache[k].stored_by # req => AdapterContent(req) # k

\* a request was answered from the cache with the result of a request for
\* another text and another source language
HitOfAnotherRequest ==
    /\ outcome.kind = "hit"
    /\ outcome.result.stored_by.text # req.text
    /\ outcome.result.stored_by.source_lang # req.source_lang

\* two calls of one gather for the same key have both missed the cache and
\* both called the backend
TwoMissesOnOneKey ==
    /\ \A t \in DOMAIN svc : svc[t].pc = "done" /\ svc[t].kind = "miss"
    /\ \A t, u \in DOMAIN svc : AdapterContent(svc[t].args) = AdapterContent(svc[u].args)
    /\ Cardinality(DOMAIN cache) = 1

PlainLanguage(l) == l \in {"en", "zh", "ja"}

\* when no language argument holds a ':' a hit returns what the same request stored
HitSoundForPlainLanguages ==
    (outcome.kind = "hit" /\ PlainLanguage(req.source_lang)
       /\ PlainLanguage(outcome.result.stored_by.source_lang))
    => outcome.result.stored_by = req


\* ---- C30: error_message of a completed job ----

\* C30: in every state a job with status completed has no error_message: the
\* message recorded by a failed run is gone once a later run has completed
C30_Original ==
    \A id \in DOMAIN files :
        files[id].translation_status = "completed" => files[id].error_message = ""

\* a job completed by its second run still carries the message of its first
CompletedWithOldError ==
    /\ PipelineEnded
    /\ ncalls = 2
    /\ files[pl.file_id].translation_status = "completed"
    /\ files[pl.file_id].error_message # ""

\* a job completed by its first run has no error_message
FirstRunCompletedWithoutError ==
    ncalls <= 1 => C30_Original

====
